---- MODULE Spec2Model ----
(***************************************************************************)
(* TerminalFlux: the asset generation server (server.js), its session      *)
(* store (services/sessionService.js over database/schema.sql), the path   *)
(* resolver (utils/assetPaths.js) and the client's generation pipeline     *)
(* (app.js, generateAllAssets).                                            *)
(*                                                                         *)
(* A path is the sequence of its segments.  A URL is a record              *)
(* [kind, at, n]: "remote" is the n-th artifact the provider produced for  *)
(* the file at path `at`; "rel" is a server-relative address; "localhost"  *)
(* is the same address prefixed with http://localhost:8081.                *)
(***************************************************************************)
EXTENDS Integers, Sequences, FiniteSets, Bags, TLC

VARIABLES
    files,      \* the disk: path -> URL the file's bytes were downloaded from
    dirs,       \* the disk: the directories that exist
    up,         \* whether the server process is running
    assets,     \* the assets table: a bag of rows
    sessions,   \* the sessions table: id given at INSERT -> the row
    gen,        \* provider: path -> number of artifacts produced for it
    reqs,       \* server: request slot -> the handler's state
    pipe,       \* client: the state of generateAllAssets
    net,        \* client: request key -> the request and the response received
    lastRec,    \* history: RowKey -> the row of the last recordAsset call for it
    clock,      \* the time `new Date()` returns
    gets,       \* server: getSession call -> the call's state
    probe,      \* server: the assetExists call under way, and its result
    deleted,    \* history: the session ids a deleteSession has completed for
    resolve,    \* two calls of the path resolver: their arguments and results
    sweep,      \* server: the cleanupOldSessions call under way, and its result
    check,      \* a call of checkAssetExists: its arguments and result
    ext,        \* client: generateAllAssets of the extended client, with its side tracks
    got,        \* server: request slot -> the chunks downloadFile holds in memory
    game        \* client: the startSessionGame call, and the grounds it put in the scene

\* the variables of the session service calls and of the resolver calls
auxVars == <<sweep, check, ext, got, game>>
svcVars == <<clock, gets, probe, deleted, resolve, auxVars>>

vars == <<files, dirs, up, assets, sessions, gen, reqs, pipe, net, lastRec, svcVars>>

\* ------------------------------------------------------------------ bounds
MaxReq == 3
MaxImgs == 7
MeshReq == 1
MaxFail == 1
MaxRec == 3
AssetReq == 2
EagerReq == 2
\* getSession calls, and ticks of the clock, of the session specification
MaxGet == 2
MaxClock == 2
\* generation requests of the sweep specification
SweepReq == 1
\* the 'data' events of one download
ArtifactChunks == 2
\* the sessions opened from the session list
MaxOpen == 1

\* ------------------------------------------------------- values and helpers
Null == "null"
\* JavaScript truthiness of a string or null: `if (sessionId)`, `if (pose)`
Truthy(x) == x # Null /\ x # ""

NoUrl == [kind |-> "none", at |-> <<>>, n |-> 0]
RemoteUrl(path, k) == [kind |-> "remote", at |-> path, n |-> k]
RelUrl(u) == [kind |-> "rel", at |-> u, n |-> 0]
LocalhostUrl(u) == [kind |-> "localhost", at |-> u, n |-> 0]
\* the bytes of a local file as a data: URL
DataUrl(path) == [kind |-> "data", at |-> path, n |-> 0]
\* a || b on URLs
OrUrl(a, b) == IF a # NoUrl THEN a ELSE b

Take(s, k) == IF Len(s) <= k THEN s ELSE SubSeq(s, 1, k)
IsPrefix(p, s) == Len(p) <= Len(s) /\ SubSeq(s, 1, Len(p)) = p

\* ------------------------------------------------------------ path resolver
ASSETS_DIR == <<"assets">>
ASSETS_URL == <<"/assets">>

\* mutant of Segments: the pose is left out of the path
SegmentsPoseless(sessionId, assetType, pose, fileName) ==
    (IF Truthy(sessionId) THEN <<sessionId>> ELSE <<>>)
    \o <<assetType>>
    \o (IF Truthy(fileName) THEN <<fileName>> ELSE <<>>)

Segments(sessionId, assetType, pose, fileName) ==
    (IF Truthy(sessionId) THEN <<sessionId>> ELSE <<>>)
    \o <<assetType>>
    \o (IF Truthy(pose) THEN <<pose>> ELSE <<>>)
    \o (IF Truthy(fileName) THEN <<fileName>> ELSE <<>>)

getAssetPath(sessionId, assetType, pose, fileName) ==
    ASSETS_DIR \o Segments(sessionId, assetType, pose, fileName)

getAssetUrl(sessionId, assetType, pose, fileName) ==
    ASSETS_URL \o Segments(sessionId, assetType, pose, fileName)

\* the string a list of parts stands for: path.join(...parts) and
\* parts.join('/') put a separator between the parts
RECURSIVE JoinSegments(_)
JoinSegments(parts) ==
    IF parts = <<>> THEN ""
    ELSE IF Len(parts) = 1 THEN parts[1]
    ELSE parts[1] \o "/" \o JoinSegments(Tail(parts))

existsSync(path) == path \in DOMAIN files \/ path \in dirs

\* dirname(path), and mkdirSync(dir, {recursive: true})
dirname(path) == SubSeq(path, 1, Len(path) - 1)
Ancestors(dir) == {SubSeq(dir, 1, k) : k \in 1..Len(dir)}
mkdirSync(ds, dir) == ds \cup Ancestors(dir)

\* ------------------------------------------------------------ session store
\* A row of the sessions table.  The table is a function from the id the row
\* was inserted with to the row; the row carries its id column.
SessionRow(id, modelType, now) ==
    [id |-> id, model_type |-> modelType, created_at |-> now, updated_at |-> now,
     last_accessed |-> now, game_state |-> Null]
SessionIds == {sessions[k].id : k \in DOMAIN sessions}

\* createSession: INSERT INTO sessions with the three timestamps set to now
InsertSession(table, id, modelType, now) == (id :> SessionRow(id, modelType, now)) @@ table

\* DELETE FROM sessions WHERE id = ?
DeleteRow(table, id) == [k \in {j \in DOMAIN table : table[j].id # id} |-> table[k]]

\* mutant of touch: the UPDATE leaves the row as it is
touchNothing(row, now) == row

\* getSession: UPDATE sessions SET last_accessed = ? WHERE id = ?
touch(row, now) == [row EXCEPT !.last_accessed = now]

\* updateSession: UPDATE sessions SET game_state = ?, updated_at = ? WHERE id = ?
setGameState(row, gameState, now) ==
    [row EXCEPT !.game_state = gameState, !.updated_at = now]

\* an UPDATE ... WHERE id = ? applied to the table; set[k] is row k with the
\* statement's SET clause applied
UpdateWhereId(table, id, set) ==
    [k \in DOMAIN table |-> IF table[k].id = id THEN set[k] ELSE table[k]]

Row(sessionId, assetType, pose, viewName, filePath, remoteUrl, requestId) ==
    [session_id |-> sessionId, asset_type |-> assetType, pose |-> pose,
     view_name |-> viewName, file_path |-> filePath, remote_url |-> remoteUrl,
     request_id |-> requestId]

RowKey(row) == <<row.session_id, row.asset_type, row.pose, row.view_name>>

\* UNIQUE(session_id, asset_type, pose, view_name): SQLite treats every NULL
\* as distinct from every other value, another NULL included, so two rows
\* conflict only when the four columns are equal and none of them is NULL.
Conflicts(a, b) ==
    /\ RowKey(a) = RowKey(b)
    /\ a.pose # Null
    /\ a.view_name # Null

\* INSERT OR REPLACE: the rows the new row conflicts with are deleted, then
\* the new row is inserted.
InsertOrReplace(table, row) ==
    LET kept == [r \in {x \in BagToSet(table) : ~Conflicts(x, row)} |-> table[r]]
    IN  kept (+) SetToBag({row})

\* recordAsset(sessionId, assetType, filePath, metadata): pose, viewName,
\* remoteUrl and requestId default to null.
recordAsset(table, sessionId, assetType, filePath, pose, viewName, remoteUrl, requestId) ==
    InsertOrReplace(table,
        Row(sessionId, assetType, pose, viewName, filePath, remoteUrl, requestId))

\* The rows the query of assetExists / getAssetWithRemoteUrl selects: pose and
\* view_name are compared only when the argument is not null.
Matching(table, sessionId, assetType, pose, viewName) ==
    {r \in BagToSet(table) :
        /\ r.session_id = sessionId
        /\ r.asset_type = assetType
        /\ (pose # Null => r.pose = pose)
        /\ (viewName # Null => r.view_name = viewName)}

\* getAssetWithRemoteUrl: db.get yields one of the matching rows (which one is
\* not specified when several match); the row counts only while its file
\* exists.  The result is the set of rows the call may return; empty: null.
getAssetWithRemoteUrl(table, sessionId, assetType, pose, viewName) ==
    {r \in Matching(table, sessionId, assetType, pose, viewName) :
        existsSync(r.file_path)}

\* deleteSession: DELETE FROM sessions, then rmSync of <assets>/<sessionId>.
\* The connection never issues PRAGMA foreign_keys = ON, so the ON DELETE
\* CASCADE of the assets table is not enforced: the assets rows stay.
RemoveTree(fs, root) ==
    [p \in {q \in DOMAIN fs : ~IsPrefix(root, q)} |-> fs[p]]
RemoveDirs(ds, root) == {d \in ds : ~IsPrefix(root, d)}
SessionRoot(sessionId) == ASSETS_DIR \o <<sessionId>>


\* ------------------------------------------------------- generation server
DEFAULT_POSE == "idle"
DEFAULT_MODEL_TYPE == "trellis"
\* the daysToKeep the sweep is called with, in ticks of the clock
SweepDays == 1
MEME_FILE == "meme-poster.png"
GROUND_FILE == "ground-texture.png"
FRONT_FILE == "front.png"
CHARACTER_DIR == ASSETS_DIR \o <<"character">>
MODELS_DIR == ASSETS_DIR \o <<"models">>
GROUND_DIR == ASSETS_DIR \o <<"ground">>

ViewFile(viewName) == viewName \o ".png"
ModelFile(pose) == "character_" \o pose \o ".glb"

\* the keys of viewPrompts and posePrompts
PromptPoses == {"idle", "walking", "shooting"}
PromptViews == {"back", "left", "right", "angle_30", "angle_-30"}
hasViewPrompt(pose, viewName) == pose \in PromptPoses /\ viewName \in PromptViews
hasPosePrompt(targetPose) == targetPose \in {"walking", "shooting"}

\* A request q: [ep, sid, pose, view, mt, imgs].  ep is the endpoint; pose is
\* `pose` (or `targetPose` of generate-pose); view is `viewName` (or the
\* `filename` a generate-meme request carries); imgs is `imageUrls`.
Req(ep, sid, pose, view, mt, imgs) ==
    [ep |-> ep, sid |-> sid, pose |-> pose, view |-> view, mt |-> mt, imgs |-> imgs]

\* asset type, pose segment and file name of the artifact a request is about
ReqType(q) ==
    CASE q.ep = "texture" -> "ground"
      [] q.ep = "model" -> "models"
      [] q.ep = "meme" -> "images"
      [] OTHER -> "character"
ReqPoseSeg(q) == IF q.ep \in {"texture", "model", "meme"} THEN Null ELSE q.pose
\* mutant of ReqFile: the mesh file carries the name of its provider
ReqFileByProvider(q) ==
    CASE q.ep = "texture" -> GROUND_FILE
      [] q.ep = "meme" -> MEME_FILE
      [] q.ep = "model" -> "character_" \o q.pose \o "_" \o q.mt \o ".glb"
      [] q.ep = "view" -> ViewFile(q.view)
      [] OTHER -> FRONT_FILE

ReqFile(q) ==
    CASE q.ep = "texture" -> GROUND_FILE
      [] q.ep = "meme" -> MEME_FILE
      [] q.ep = "model" -> ModelFile(q.pose)
      [] q.ep = "view" -> ViewFile(q.view)
      [] OTHER -> FRONT_FILE

\* `sessionId ? getAssetPath(sessionId, ...) : join(<legacy dir>, ...)`
ReqPath(q) ==
    IF Truthy(q.sid)
    THEN getAssetPath(q.sid, ReqType(q), ReqPoseSeg(q), ReqFile(q))
    ELSE CASE q.ep = "texture" -> GROUND_DIR \o <<GROUND_FILE>>
           [] q.ep = "model" -> MODELS_DIR \o <<ModelFile(q.pose)>>
           [] q.ep = "meme" -> ASSETS_DIR \o <<"images", MEME_FILE>>
           [] OTHER -> CHARACTER_DIR \o <<q.pose, ReqFile(q)>>

\* `sessionId ? getAssetUrl(sessionId, ...) : "/assets/..."`
ReqUrl(q) ==
    IF Truthy(q.sid)
    THEN getAssetUrl(q.sid, ReqType(q), ReqPoseSeg(q), ReqFile(q))
    ELSE CASE q.ep = "texture" -> ASSETS_URL \o <<"ground", GROUND_FILE>>
           [] q.ep = "model" -> ASSETS_URL \o <<"models", ModelFile(q.pose)>>
           [] q.ep = "meme" -> ASSETS_URL \o <<"images", MEME_FILE>>
           [] OTHER -> ASSETS_URL \o <<"character", q.pose, ReqFile(q)>>

\* view_name under which the image endpoints record and look up the artifact
ReqViewName(q) == IF q.ep = "view" THEN q.view ELSE "front"

\* mutant of maxImages: one ceiling for both providers
maxImagesOneCeiling(modelType) == 6

\* generate-3d-model: `maxImages = modelType === 'trellis' ? 6 : 5`, then
\* `imageUrls.splice(maxImages)` when the list is longer
maxImages(modelType) == IF modelType = "trellis" THEN 6 ELSE 5
Truncated(q) ==
    IF Len(q.imgs) > maxImages(q.mt) THEN SubSeq(q.imgs, 1, maxImages(q.mt)) ELSE q.imgs

\* mutant of CacheHit: the test is given the URL path instead of the file path
CacheHitByUrl(q) == existsSync(ReqUrl(q))

\* mutant of CacheHit: the legacy path is tried when the session's is missing
CacheHitWithLegacyFallback(q) ==
    existsSync(ReqPath(q)) \/ existsSync(ReqPath([q EXCEPT !.sid = Null]))

\* mutant of CacheHit: the test looks at the legacy path whatever the session
CacheHitIgnoringSession(q) == existsSync(ReqPath([q EXCEPT !.sid = Null]))

\* the cache test every generation endpoint starts with
CacheHit(q) == existsSync(ReqPath(q))

\* the endpoints whose cached answer looks up the recorded remote URL
LooksUpRemote(q) == q.ep \in {"character", "pose", "view"} /\ Truthy(q.sid)

\* idle front image generate-pose transforms
IdleFrontPath(q) ==
    IF Truthy(q.sid) THEN getAssetPath(q.sid, "character", "idle", FRONT_FILE)
    ELSE CHARACTER_DIR \o <<"idle", FRONT_FILE>>
LegacyIdlePath == CHARACTER_DIR \o <<"idle", FRONT_FILE>>

\* mutant of Rejection: no check stands before the provider call
RejectionNone(q) == ""

\* mutant of Rejection: generate-pose reads the legacy idle image when the
\* session has none
RejectionUsingLegacy(q) ==
    CASE q.ep = "pose" ->
            IF ~existsSync(IdleFrontPath(q)) /\ ~existsSync(LegacyIdlePath) THEN "no-idle"
            ELSE IF ~hasPosePrompt(q.pose) THEN "unknown-pose"
            ELSE ""
      [] q.ep = "view" -> IF hasViewPrompt(q.pose, q.view) THEN "" ELSE "unknown-view"
      [] OTHER -> ""

\* The checks between the cache test and the provider call: "" when the
\* request goes on to the provider, else why it is answered with an error.
\* generate-pose answers 400 when neither the idle image nor its legacy
\* fallback exists or the pose has no prompt, and readFileSync(idleFrontPath)
\* throws inside the try when only the legacy image exists.
Rejection(q) ==
    CASE q.ep = "pose" ->
            IF ~existsSync(IdleFrontPath(q)) /\ ~existsSync(LegacyIdlePath) THEN "no-idle"
            ELSE IF ~hasPosePrompt(q.pose) THEN "unknown-pose"
            ELSE IF ~existsSync(IdleFrontPath(q)) THEN "read-error"
            ELSE ""
      [] q.ep = "view" -> IF hasViewPrompt(q.pose, q.view) THEN "" ELSE "unknown-view"
      [] OTHER -> ""

\* what the provider is sent: the source images of the call
ProviderInput(q) ==
    CASE q.ep = "model" -> Truncated(q)
      [] q.ep = "view" -> q.imgs
      [] q.ep = "pose" -> <<DataUrl(IdleFrontPath(q))>>
      [] OTHER -> <<>>

\* ---- responses: [success, cached, url, remoteUrl, requestId, error]
\* url is imageUrl (modelUrl for generate-3d-model); requestId is -1 for
\* 'cached' and 0 where the response carries none.
Resp(success, cached, url, remoteUrl, requestId, error) ==
    [success |-> success, cached |-> cached, url |-> url, remoteUrl |-> remoteUrl,
     requestId |-> requestId, error |-> error]
ErrorResp(error) == Resp(FALSE, FALSE, NoUrl, NoUrl, 0, error)

\* mutant of CachedResp: the recorded remote URL is not used
CachedRespLocal(q, row) ==
    Resp(TRUE, TRUE, RelUrl(ReqUrl(q)),
         IF q.ep \in {"texture", "model"} THEN NoUrl ELSE LocalhostUrl(ReqUrl(q)),
         IF q.ep \in {"pose", "view"} THEN 0 ELSE -1,
         "")

\* the cached answer; `row` is the result of getAssetWithRemoteUrl, a set with
\* at most the one row chosen
CachedResp(q, row) ==
    Resp(TRUE, TRUE, RelUrl(ReqUrl(q)),
         IF q.ep \in {"texture", "model", "meme"} THEN NoUrl
         ELSE IF row # {} /\ (CHOOSE r \in row : TRUE).remote_url # NoUrl
              THEN (CHOOSE r \in row : TRUE).remote_url
              ELSE LocalhostUrl(ReqUrl(q)),
         IF q.ep \in {"pose", "view", "meme"} THEN 0 ELSE -1,
         "")

\* the answer after a successful generation; u is the provider's URL
GeneratedResp(q, u) ==
    Resp(TRUE, FALSE, RelUrl(ReqUrl(q)),
         IF q.ep \in {"texture", "model", "meme"} THEN NoUrl ELSE u,
         IF q.ep \in {"pose", "view"} THEN 0 ELSE u.n,
         "")

\* the URL of the next artifact the provider produces for the request's file
GenOf(path) == IF path \in DOMAIN gen THEN gen[path] ELSE 0
NextUrl(q) == RemoteUrl(ReqPath(q), GenOf(ReqPath(q)) + 1)

\* mutant of WriteFile: the body is dropped instead of written
WriteFileDropped(fs, path, u) == fs

\* downloadFile: writeFileSync once the whole body has arrived; it throws
\* (ENOENT) when the directory of the file is gone
CanWrite(path) == dirname(path) \in dirs

\* mutant of WriteFile: a file that is there is left as it is
WriteFileKeepFirst(fs, path, u) == IF path \in DOMAIN fs THEN fs ELSE (path :> u) @@ fs

WriteFile(fs, path, u) == (path :> u) @@ fs

\* `if (sessionId) await sessionService.recordAsset(...)`: generate-texture
\* passes neither pose nor viewName, generate-3d-model no viewName
RecordGeneratedArgs(q) ==
    [sessionId |-> q.sid, assetType |-> ReqType(q), filePath |-> ReqPath(q),
     pose |-> IF q.ep \in {"texture", "meme"} THEN Null ELSE q.pose,
     viewName |-> IF q.ep \in {"texture", "model", "meme"} THEN Null ELSE ReqViewName(q)]
\* mutant of RecordGenerated: the provider's URL and request id are left out
RecordGeneratedNoUrl(table, q, u) ==
    LET a == RecordGeneratedArgs(q)
    IN  recordAsset(table, a.sessionId, a.assetType, a.filePath, a.pose, a.viewName, NoUrl, 0)

RecordGenerated(table, q, u) ==
    LET a == RecordGeneratedArgs(q)
    IN  recordAsset(table, a.sessionId, a.assetType, a.filePath, a.pose, a.viewName, u, u.n)


\* ------------------------------------------- the server, one await at a time
\* A slot holds one request from its arrival to its answer.  pc is the await
\* the handler is suspended at: "lookup" (getAssetWithRemoteUrl), "provider"
\* (fal.subscribe), "download" (downloadFile), "record" (recordAsset);
\* "done": answered; "lost": the process died before the answer.  calls is
\* the number of fal.subscribe calls the handler has made; idleThere is what
\* existsSync said of the idle front image when the request arrived.
Slots == 1..MaxReq
NoReq == Req("none", Null, Null, Null, Null, <<>>)
NoResp == Resp(FALSE, FALSE, NoUrl, NoUrl, 0, "none")
FreeSlot ==
    [pc |-> "free", q |-> NoReq, called |-> FALSE, sent |-> <<>>, url |-> NoUrl,
     resp |-> NoResp, prior |-> "none", kept |-> FALSE, calls |-> 0, idleThere |-> FALSE]

SessionArgs == {Null, "s1"}
Imgs(k) == [i \in 1..k |-> RemoteUrl(<<"img">>, i)]
\* the requests of Spec: every caching endpoint, in session and legacy scope
Inputs ==
    {Req("texture", "s1", Null, Null, Null, <<>>),
     Req("character", "s1", DEFAULT_POSE, Null, Null, <<>>),
     Req("pose", "s1", "walking", Null, Null, <<>>),
     Req("view", Null, DEFAULT_POSE, "back", Null, Imgs(1)),
     Req("model", Null, DEFAULT_POSE, Null, "rodin", Imgs(2))}

\* history, taken when a request arrives: "kept" when an earlier request for
\* the file at `path` has been answered with success and no deleteSession has
\* removed the file's tree since that request found or stored the file;
\* "wiped" when each such request was followed by such a deleteSession;
\* "none" when no request for the file has been answered with success.
\* (`kept` of a slot: it found or stored its file, and no deleteSession has
\* removed the file's tree since.)
Answered(path) ==
    {k \in Slots : reqs[k].pc = "done" /\ reqs[k].resp.success /\ ReqPath(reqs[k].q) = path}
Prior(path) ==
    IF \E k \in Answered(path) : reqs[k].kept THEN "kept"
    ELSE IF Answered(path) # {} THEN "wiped"
    ELSE "none"

Answer(r, resp) ==
    reqs' = [reqs EXCEPT ![r].pc = "done", ![r].resp = resp]

\* The request arrives and its handler runs to its first await: the cache
\* test, the eager checks and the call of the provider.
Start(r, q) ==
    /\ up
    /\ reqs[r].pc = "free"
    /\ \A k \in 1..(r - 1) : reqs[k].pc # "free"
    /\ LET slot == [FreeSlot EXCEPT !.q = q, !.prior = Prior(ReqPath(q)),
                                    !.idleThere = existsSync(IdleFrontPath(q))]
       IN  IF CacheHit(q)
           THEN IF LooksUpRemote(q)
                THEN reqs' = [reqs EXCEPT ![r] = [slot EXCEPT !.pc = "lookup", !.kept = TRUE]]
                ELSE reqs' = [reqs EXCEPT ![r] =
                        [slot EXCEPT !.pc = "done", !.resp = CachedResp(q, {}), !.kept = TRUE]]
           ELSE IF Rejection(q) # ""
                THEN reqs' = [reqs EXCEPT ![r] =
                        [slot EXCEPT !.pc = "done", !.resp = ErrorResp(Rejection(q))]]
                ELSE reqs' = [reqs EXCEPT ![r] =
                            [slot EXCEPT !.pc = "provider", !.called = TRUE, !.calls = 1,
                                         !.sent = ProviderInput(q)]]
    /\ UNCHANGED <<files, dirs, up, assets, sessions, gen, pipe, net, lastRec, svcVars>>

\* getAssetWithRemoteUrl returns; the cached answer is sent.
Lookup(r) ==
    /\ up
    /\ reqs[r].pc = "lookup"
    /\ LET q == reqs[r].q
           found == getAssetWithRemoteUrl(assets, q.sid, "character", q.pose, ReqViewName(q))
       IN  \/ found = {} /\ Answer(r, CachedResp(q, {}))
           \/ \E row \in found : Answer(r, CachedResp(q, {row}))
    /\ UNCHANGED <<files, dirs, up, assets, sessions, gen, pipe, net, lastRec, svcVars>>

\* mutant of ProviderReturn: a failed call leaves an empty file behind
ProviderReturnLeavingFile(r, ok) ==
    /\ up
    /\ reqs[r].pc = "provider"
    /\ LET q == reqs[r].q
       IN  IF ok
           THEN /\ reqs' = [reqs EXCEPT ![r].pc = "download", ![r].url = NextUrl(q)]
                /\ gen' = (ReqPath(q) :> NextUrl(q).n) @@ gen
                /\ dirs' = mkdirSync(dirs, dirname(ReqPath(q)))
                /\ UNCHANGED files
           ELSE /\ reqs' = [reqs EXCEPT ![r].pc = "done", ![r].resp = ErrorResp("failed")]
                /\ files' = (ReqPath(q) :> NoUrl) @@ files
                /\ UNCHANGED <<gen, dirs>>
    /\ UNCHANGED <<up, assets, sessions, pipe, net, lastRec, svcVars>>

\* mutant of ProviderReturn: a failed call is made once more
ProviderReturnRetrying(r, ok) ==
    /\ up
    /\ reqs[r].pc = "provider"
    /\ LET q == reqs[r].q
       IN  IF ok
           THEN /\ reqs' = [reqs EXCEPT ![r].pc = "download", ![r].url = NextUrl(q)]
                /\ gen' = (ReqPath(q) :> NextUrl(q).n) @@ gen
                /\ dirs' = mkdirSync(dirs, dirname(ReqPath(q)))
           ELSE /\ IF reqs[r].calls < 2
                   THEN reqs' = [reqs EXCEPT ![r].calls = @ + 1]
                   ELSE reqs' = [reqs EXCEPT ![r].pc = "done", ![r].resp = ErrorResp("failed")]
                /\ UNCHANGED <<gen, dirs>>
    /\ UNCHANGED <<files, up, assets, sessions, pipe, net, lastRec, svcVars>>

\* fal.subscribe returns.  ok: a result with an artifact; the directory of the
\* file is made and the download starts.  ~ok: a result without an artifact,
\* or an error; both are answered with status 500.
\* mutant of ProviderReturn: the row is recorded before the download
ProviderReturnRecordsFirst(r, ok) ==
    /\ up
    /\ reqs[r].pc = "provider"
    /\ LET q == reqs[r].q
       IN  IF ok
           THEN /\ reqs' = [reqs EXCEPT ![r].pc = IF Truthy(q.sid) THEN "record" ELSE "download",
                                        ![r].url = NextUrl(q)]
                /\ gen' = (ReqPath(q) :> NextUrl(q).n) @@ gen
                /\ dirs' = mkdirSync(dirs, dirname(ReqPath(q)))
           ELSE /\ Answer(r, ErrorResp("failed"))
                /\ UNCHANGED <<gen, dirs>>
    /\ UNCHANGED <<files, up, assets, sessions, pipe, net, lastRec, svcVars>>

ProviderReturn(r, ok) ==
    /\ up
    /\ reqs[r].pc = "provider"
    /\ LET q == reqs[r].q
       IN  IF ok
           THEN /\ reqs' = [reqs EXCEPT ![r].pc = "download", ![r].url = NextUrl(q)]
                /\ gen' = (ReqPath(q) :> NextUrl(q).n) @@ gen
                /\ dirs' = mkdirSync(dirs, dirname(ReqPath(q)))
           ELSE /\ Answer(r, ErrorResp("failed"))
                /\ UNCHANGED <<gen, dirs>>
    /\ UNCHANGED <<files, up, assets, sessions, pipe, net, lastRec, svcVars>>

\* downloadFile ends: the body has arrived and is written in one
\* writeFileSync, or the response stream fails.  The write throws inside the
\* stream's 'end' callback when the directory is gone; nothing catches it
\* there and the process dies, taking every request in flight with it.
DownloadEnd(r, ok) ==
    /\ up
    /\ reqs[r].pc = "download"
    /\ LET q == reqs[r].q
       IN  IF ~ok
           THEN /\ Answer(r, ErrorResp("failed"))
                /\ UNCHANGED <<files, up>>
           ELSE IF ~CanWrite(ReqPath(q))
           THEN /\ up' = FALSE
                /\ reqs' = [k \in Slots |->
                      IF reqs[k].pc \in {"free", "done"} THEN reqs[k]
                      ELSE [reqs[k] EXCEPT !.pc = "lost"]]
                /\ UNCHANGED files
           ELSE /\ files' = WriteFile(files, ReqPath(q), reqs[r].url)
                /\ IF Truthy(q.sid)
                   THEN reqs' = [reqs EXCEPT ![r].pc = "record", ![r].kept = TRUE]
                   ELSE reqs' = [reqs EXCEPT ![r].pc = "done", ![r].kept = TRUE,
                                             ![r].resp = GeneratedResp(q, reqs[r].url)]
                /\ UNCHANGED up
    /\ UNCHANGED <<dirs, assets, sessions, gen, pipe, net, lastRec, svcVars>>

\* recordAsset returns; the answer is sent.
RecordDone(r) ==
    /\ up
    /\ reqs[r].pc = "record"
    /\ assets' = RecordGenerated(assets, reqs[r].q, reqs[r].url)
    /\ Answer(r, GeneratedResp(reqs[r].q, reqs[r].url))
    /\ UNCHANGED <<files, dirs, up, sessions, gen, pipe, net, lastRec, svcVars>>

\* DELETE /api/sessions/:id -> deleteSession.  The row is deleted first and
\* the tree removed after that await; no generation handler reads the
\* sessions table, so the two are one step here.
deleteSession(sessionId) ==
    /\ up
    /\ sessions' = DeleteRow(sessions, sessionId)
    /\ files' = RemoveTree(files, SessionRoot(sessionId))
    /\ dirs' = RemoveDirs(dirs, SessionRoot(sessionId))
    /\ reqs' = [k \in Slots |->
            IF IsPrefix(SessionRoot(sessionId), ReqPath(reqs[k].q))
            THEN [reqs[k] EXCEPT !.kept = FALSE] ELSE reqs[k]]
    /\ UNCHANGED <<up, assets, gen, pipe, net, lastRec>>

DeleteSession(sessionId) ==
    /\ deleteSession(sessionId)
    /\ UNCHANGED svcVars

\* the directories server.js makes when it starts
StartupDirs ==
    {ASSETS_DIR, CHARACTER_DIR, MODELS_DIR, GROUND_DIR}
    \cup {CHARACTER_DIR \o <<p>> : p \in {"idle", "walking", "shooting"}}

\* no assetExists call is under way
NoProbe == [pc |-> "idle", args |-> <<>>, row |-> {}, result |-> Null, late |-> FALSE]
\* the path resolver has not been called
\* no cleanupOldSessions call yet; no checkAssetExists call yet
NoSweep == [pc |-> "idle", cutoff |-> 0, old |-> {}, left |-> {}, result |-> 0]
NoCheck == [args |-> <<>>, done |-> FALSE, exists |-> FALSE, path |-> <<>>, url |-> <<>>,
            isLegacy |-> FALSE]

\* the extended client: createEnv for an object and for a tree and five
\* createCharacterThemedObject calls make the environment track; the riddle
\* has five object descriptions
EnvItems == 1..7
PuzzleItems == 1..5
\* generateAllAssets of the extended client has not been called
NoExt == [pc |-> "off", why |-> "", env |-> [i \in EnvItems |-> "none"], riddle |-> "none",
          puzzle |-> [j \in PuzzleItems |-> "none"]]

\* startSessionGame has not been called; the scene holds no ground
NoGame == [pc |-> "none", sid |-> Null, mt |-> Null, hasGround |-> FALSE,
           hasIdleModel |-> FALSE, why |-> "", grounds |-> 0, opens |-> 0]

\* no download has received a chunk
NoChunks == [r \in Slots |-> 0]

NoResolve == [a |-> <<>>, b |-> <<>>, done |-> FALSE, pa |-> "", pb |-> "", ua |-> "", ub |-> ""]

\* generateAllAssets has not been called
NoPipe ==
    [pc |-> "off", sid |-> Null, mt |-> Null, batch |-> <<>>,
     idleImageUrl |-> NoUrl, idleViewUrls |-> <<>>,
     walkingImageUrl |-> NoUrl, walkingViewUrls |-> <<>>,
     why |-> "", called |-> {}, fails |-> 0, prevEnd |-> "none", prevGen |-> {},
     timer |-> "none", fallbackGround |-> FALSE, loadingHidden |-> TRUE,
     gallery |-> {}, ground |-> FALSE]

InitServer ==
    /\ files = <<>>
    /\ dirs = StartupDirs
    /\ up = TRUE
    /\ assets = EmptyBag
    /\ sessions = <<>>
    /\ gen = <<>>
    /\ reqs = [r \in Slots |-> FreeSlot]
    /\ pipe = NoPipe
    /\ net = <<>>
    /\ lastRec = <<>>
    /\ clock = 0
    /\ gets = <<>>
    /\ probe = NoProbe
    /\ deleted = {}
    /\ sweep = NoSweep
    /\ ext = NoExt
    /\ got = NoChunks
    /\ game = NoGame

Init == InitServer /\ resolve = NoResolve /\ check = NoCheck

Next ==
    \/ \E r \in Slots, q \in Inputs : Start(r, q)
    \/ \E r \in Slots : Lookup(r)
    \/ \E r \in Slots, ok \in BOOLEAN : ProviderReturn(r, ok)
    \/ \E r \in Slots, ok \in BOOLEAN : DownloadEnd(r, ok)
    \/ \E r \in Slots : RecordDone(r)
    \/ \E s \in SessionArgs \ {Null} : DeleteSession(s)

Spec == Init /\ [][Next]_vars


\* ---- the mesh endpoint alone: generate-3d-model with 0..MaxImgs image
\* URLs, for a session and in the legacy scope
MeshInputs ==
    {Req("model", s, DEFAULT_POSE, Null, m, Imgs(k)) :
        s \in SessionArgs, m \in {"trellis", "rodin"}, k \in 0..MaxImgs}

NextMesh ==
    \/ \E r \in 1..MeshReq, q \in MeshInputs : Start(r, q)
    \/ \E r \in Slots, ok \in BOOLEAN : ProviderReturn(r, ok)
    \/ \E r \in Slots, ok \in BOOLEAN : DownloadEnd(r, ok)
    \/ \E r \in Slots : RecordDone(r)

SpecMesh == Init /\ [][NextMesh]_vars


\* ------------------------------------------- the client: generateAllAssets
\* pipe.pc is the await generateAllAssets is suspended at: "p1", "p2", "p3",
\* "p4v", "p4m" (the parallelFetch of a phase), "tex" (groundTexturePromise),
\* "load" (loadCharacterModel); "done": the loading modal is hidden; "failed":
\* the catch block ran, pipe.why says which throw.  pipe.batch is the list of
\* request keys of the parallelFetch awaited; net holds every request of the
\* run with its response.  History: pipe.called, the keys whose request made
\* the server call the provider in this run; pipe.fails, the number of
\* provider calls and loads that have failed so far; pipe.prevEnd and
\* pipe.prevGen, how the previous run ended and the keys it got generated
\* (success, not cached).  pipe.timer is the setTimeout of the catch block that
\* is pending: "fallback" (createFallbackGround), then "hide" (the loading
\* modal); pipe.fallbackGround: the fallback ground is in the scene;
\* pipe.loadingHidden: the loading modal is hidden.  pipe.gallery: the keys
\* of the results whose image addImageToGallery has put in the gallery; it is
\* all a run keeps of its results, generateAllAssets returns no value.
views == <<"back", "left", "right", "angle_30", "angle_-30">>

\* mutant of viewOrder: the two side views change places
viewOrderSidesSwapped == <<"back", "right", "left", "angle_30", "angle_-30">>

viewOrder == <<"back", "left", "right", "angle_30", "angle_-30">>

Key(type, viewName) == <<type, viewName>>
Entry(key, q) == [key |-> key, q |-> q]
Pending(k) == k \in DOMAIN net /\ net[k].resp = NoResp
AnsweredKey(k) == k \in DOMAIN net /\ net[k].resp # NoResp
Succeeded(k) == AnsweredKey(k) /\ net[k].resp.success

\* parallelFetch(requests): every request is sent; the responses are awaited
Sent(entries) ==
    [k \in {entries[i].key : i \in DOMAIN entries} |->
        [q |-> (CHOOSE e \in {entries[i] : i \in DOMAIN entries} : e.key = k).q,
         resp |-> NoResp]]
Keys(entries) == [i \in DOMAIN entries |-> entries[i].key]

Phase1Requests(sid) ==
    <<Entry(Key("ground", Null), Req("texture", sid, Null, Null, Null, <<>>)),
      Entry(Key("idle-base", Null), Req("character", sid, "idle", Null, Null, <<>>))>>

ViewRequests(type, pose, imageUrl, sid) ==
    [i \in DOMAIN views |->
        Entry(Key(type, views[i]), Req("view", sid, pose, views[i], Null, <<imageUrl>>))]

\* `userModelType === 'trellis' ? urls.slice(0, 6) : urls.slice(0, 5)`
SliceFor(modelType, urls) == IF modelType = "trellis" THEN Take(urls, 6) ELSE Take(urls, 5)

Phase3Requests(mt, idleViewUrls, sid) ==
    <<Entry(Key("idle-3d", Null),
            Req("model", sid, "idle", Null, mt, SliceFor(mt, idleViewUrls))),
      Entry(Key("walking-base", Null), Req("pose", sid, "walking", Null, Null, <<>>))>>

Phase4ModelRequests(mt, walkingViewUrls, sid) ==
    <<Entry(Key("walking-3d", Null),
            Req("model", sid, "walking", Null, mt, SliceFor(mt, walkingViewUrls)))>>

\* mutant of AddressOf: the local address is taken first
AddressOfImageUrl(resp) == OrUrl(resp.url, resp.remoteUrl)

\* `data.remoteUrl || data.imageUrl`
AddressOf(resp) == OrUrl(resp.remoteUrl, resp.url)

\* the list a phase collects: the front image, then the address of every
\* view of `type` that succeeded, in the order of `order`
RECURSIVE CollectFrom(_, _, _)
CollectFrom(type, order, i) ==
    IF i > Len(order) THEN <<>>
    ELSE (IF Succeeded(Key(type, order[i]))
          THEN <<AddressOf(net[Key(type, order[i])].resp)>> ELSE <<>>)
         \o CollectFrom(type, order, i + 1)
Collect(front, type) == <<front>> \o CollectFrom(type, viewOrder, 1)

\* the views of `type` the same loop adds to the gallery: those that succeeded
ShownViews(type) ==
    {Key(type, viewOrder[i]) : i \in {j \in DOMAIN viewOrder : Succeeded(Key(type, viewOrder[j]))}}

\* mutant of Phase1Error: the ground texture is not checked
Phase1ErrorIdleOnly(ground, idleBase) == IF ~idleBase.success THEN "idle-base" ELSE ""

\* mutant of Phase1Error: the idle base image is not checked
Phase1ErrorGroundOnly(ground, idleBase) == IF ~ground.success THEN "ground" ELSE ""

\* `if (!groundData.success) throw ...; if (!idleBaseData.success) throw ...`
Phase1Error(ground, idleBase) ==
    IF ~ground.success THEN "ground"
    ELSE IF ~idleBase.success THEN "idle-base"
    ELSE ""

\* mutant of Phase3Error: a failed idle mesh is let through
Phase3ErrorNone(idleModel) == ""

\* `if (!idleModelData.success) throw ...`
Phase3Error(idleModel) == IF ~idleModel.success THEN "idle-3d" ELSE ""

\* `walkingBaseData?.success ? (remoteUrl || imageUrl) : null`
WalkingImage(walkingBase) == IF walkingBase.success THEN AddressOf(walkingBase) ELSE NoUrl

\* mutant of QualifiesForMesh: one image fewer is asked for
QualifiesForMeshWithTwo(urls) == Len(urls) >= 2

\* `if (walkingViewUrls.length >= 3)`: the list starts with the front image
QualifiesForMesh(urls) == Len(urls) >= 3

\* the catch block: the error is shown and the first timer set; a rejected
\* load is counted in pipe.fails
Fail(why) ==
    pipe' = [pipe EXCEPT !.pc = "failed", !.why = why, !.batch = <<>>, !.timer = "fallback"]
FailLoad(why) ==
    pipe' = [pipe EXCEPT !.pc = "failed", !.why = why, !.batch = <<>>, !.fails = @ + 1,
                         !.timer = "fallback"]

\* createGround: a ground mesh with the generated texture is added to the
\* scene (pipe.ground)
createGround(p) == [p EXCEPT !.ground = TRUE]

\* createFallbackGround: a plain ground mesh is added to the scene
createFallbackGround(p) == [p EXCEPT !.fallbackGround = TRUE]

\* mutant of hideLoading: the modal is left as it is
hideLoadingNot(p) == p

\* `loadingElement.classList.add('hidden')`
hideLoading(p) == [p EXCEPT !.loadingHidden = TRUE]

\* mutant of Phase4Error: a failed walking mesh is thrown
Phase4ErrorThrows(walkingModel) == IF ~walkingModel.success THEN "walking-3d" ELSE ""

\* `phase4ModelResults.forEach(...)`: a result that succeeded is logged, and
\* nothing is thrown for one that failed
Phase4Error(walkingModel) == ""


\* createSessionDirectories
SessionDirs(sessionId) ==
    {SessionRoot(sessionId) \o d :
        d \in {<<>>, <<"character">>, <<"character", "idle">>, <<"character", "walking">>,
               <<"character", "shooting">>, <<"models">>, <<"ground">>}}

\* The loading modal is shown and generateAllAssets is called: Phase 1 is sent
Begin(sid, mt, prevEnd, prevGen) ==
    /\ pipe' = [NoPipe EXCEPT !.pc = "p1", !.sid = sid, !.mt = mt, !.fails = pipe.fails,
                              !.loadingHidden = FALSE, !.gallery = pipe.gallery,
                              !.batch = Keys(Phase1Requests(sid)),
                              !.prevEnd = prevEnd, !.prevGen = prevGen]
    /\ net' = Sent(Phase1Requests(sid))

\* The character form is submitted: createSession inserts the session row and
\* makes its directories, then generateAllAssets runs for the new session.
Submit(sid, mt) ==
    /\ up
    /\ pipe.pc = "off"
    /\ sessions' = InsertSession(sessions, sid, mt, clock)
    /\ dirs' = dirs \cup SessionDirs(sid)
    /\ Begin(sid, mt, "none", {})
    /\ UNCHANGED <<files, up, assets, gen, reqs, lastRec, svcVars>>

\* startSessionGame for the session of the run that ended: loadSession finds
\* the session row, the model type is the row's, and generateAllAssets runs
\* again when checkAndLoadSessionAssets returns false (a record, the idle
\* model or one of its two loads is missing or fails; when it returns true
\* nothing is requested and nothing changes).
Resume ==
    /\ up
    /\ pipe.pc \in {"done", "failed"}
    /\ pipe.sid \in SessionIds
    /\ Begin(pipe.sid, pipe.mt, pipe.pc,
             {k \in DOMAIN net : net[k].resp.success /\ ~net[k].resp.cached})
    /\ UNCHANGED <<files, dirs, up, assets, sessions, gen, reqs, lastRec, svcVars>>

\* The server handles the requests of a parallelFetch.  The handlers of one
\* batch work on different files and different rows, so the order of their
\* awaits does not show in what they answer: a request is handled in one
\* step, in the order the batch was sent.
Turn(i) ==
    /\ up
    /\ pipe.pc \in {"p1", "p2", "p3", "p4v", "p4m"}
    /\ i \in DOMAIN pipe.batch
    /\ Pending(pipe.batch[i])
    /\ \A j \in 1..(i - 1) : ~Pending(pipe.batch[j])

Respond(k, resp) == net' = [net EXCEPT ![k].resp = resp]

\* One request is handled.  The file exists: the cached answer.  No file and
\* an eager check fails: the error answer.  Else the provider is called; ok:
\* it produces the artifact, which is downloaded, stored and recorded; ~ok:
\* the provider or the download fails.  pipe.fails counts the failed calls.
Serve(i, ok) ==
    /\ Turn(i)
    /\ LET k == pipe.batch[i]
           q == net[k].q
           found == getAssetWithRemoteUrl(assets, q.sid, "character", q.pose, ReqViewName(q))
       IN  IF CacheHit(q)
           THEN /\ IF LooksUpRemote(q) /\ found # {}
                   THEN \E row \in found : Respond(k, CachedResp(q, {row}))
                   ELSE Respond(k, CachedResp(q, {}))
                /\ UNCHANGED <<gen, dirs, files, assets, pipe>>
           ELSE IF Rejection(q) # ""
           THEN /\ Respond(k, ErrorResp(Rejection(q)))
                /\ UNCHANGED <<gen, dirs, files, assets, pipe>>
           ELSE IF ok
           THEN /\ pipe' = [pipe EXCEPT !.called = @ \cup {k}]
                /\ gen' = (ReqPath(q) :> NextUrl(q).n) @@ gen
                /\ dirs' = mkdirSync(dirs, dirname(ReqPath(q)))
                /\ files' = WriteFile(files, ReqPath(q), NextUrl(q))
                /\ assets' = IF Truthy(q.sid) THEN RecordGenerated(assets, q, NextUrl(q))
                             ELSE assets
                /\ Respond(k, GeneratedResp(q, NextUrl(q)))
           ELSE /\ pipe' = [pipe EXCEPT !.called = @ \cup {k}, !.fails = @ + 1]
                /\ Respond(k, ErrorResp("failed"))
                /\ UNCHANGED <<gen, dirs, files, assets>>
    /\ UNCHANGED <<up, sessions, reqs, lastRec, svcVars>>

\* mutant of Joined: the await ends with the first response
\* mutant of Joined: the await is given up when time has passed
JoinedOrTimedOut ==
    /\ pipe.batch # <<>>
    /\ \/ \A i \in DOMAIN pipe.batch : AnsweredKey(pipe.batch[i])
       \/ clock >= 1

JoinedOnFirst ==
    /\ pipe.batch # <<>>
    /\ \E i \in DOMAIN pipe.batch : AnsweredKey(pipe.batch[i])

\* `await parallelFetch(...)` resumes: Promise.all has every response
Joined ==
    /\ pipe.batch # <<>>
    /\ \A i \in DOMAIN pipe.batch : AnsweredKey(pipe.batch[i])

\* Phase 1 has returned: throw, or send Phase 2
Phase1Join ==
    /\ pipe.pc = "p1" /\ Joined
    /\ LET ground == net[Key("ground", Null)].resp
           idleBase == net[Key("idle-base", Null)].resp
           reqs2 == ViewRequests("idle-view", "idle", AddressOf(idleBase), pipe.sid)
       IN  IF Phase1Error(ground, idleBase) # ""
           THEN Fail(Phase1Error(ground, idleBase)) /\ UNCHANGED net
           ELSE /\ pipe' = [pipe EXCEPT !.pc = "p2", !.idleImageUrl = AddressOf(idleBase),
                                        !.batch = Keys(reqs2),
                                        !.gallery = @ \cup {Key("ground", Null),
                                                            Key("idle-base", Null)}]
                /\ net' = Sent(reqs2) @@ net
    /\ UNCHANGED <<files, dirs, up, assets, sessions, gen, reqs, lastRec, svcVars>>

\* Phase 2 has returned: the idle views are collected
Phase2Join ==
    /\ pipe.pc = "p2" /\ Joined
    /\ pipe' = [pipe EXCEPT !.pc = "tex", !.batch = <<>>,
                            !.idleViewUrls = Collect(pipe.idleImageUrl, "idle-view"),
                            !.gallery = @ \cup ShownViews("idle-view")]
    /\ UNCHANGED <<files, dirs, up, assets, sessions, gen, reqs, net, lastRec, svcVars>>

\* `await groundTexturePromise`: the texture has loaded and Phase 3 is sent,
\* or the load failed and the await throws
TextureLoaded(ok) ==
    /\ pipe.pc = "tex"
    /\ LET reqs3 == Phase3Requests(pipe.mt, pipe.idleViewUrls, pipe.sid)
       IN  IF ~ok
           THEN FailLoad("texture-load") /\ UNCHANGED net
           ELSE /\ pipe' = createGround([pipe EXCEPT !.pc = "p3", !.batch = Keys(reqs3)])
                /\ net' = Sent(reqs3) @@ net
    /\ UNCHANGED <<files, dirs, up, assets, sessions, gen, reqs, lastRec, svcVars>>

\* Phase 3 has returned: throw, or send the walking views, or go on to the
\* final load when there is no walking image
Phase3Join ==
    /\ pipe.pc = "p3" /\ Joined
    /\ LET idleModel == net[Key("idle-3d", Null)].resp
           walkingImageUrl == WalkingImage(net[Key("walking-base", Null)].resp)
           reqs4 == ViewRequests("walking-view", "walking", walkingImageUrl, pipe.sid)
       IN  IF Phase3Error(idleModel) # ""
           THEN Fail(Phase3Error(idleModel)) /\ UNCHANGED net
           ELSE IF walkingImageUrl # NoUrl
           THEN /\ pipe' = [pipe EXCEPT !.pc = "p4v", !.walkingImageUrl = walkingImageUrl,
                                        !.batch = Keys(reqs4),
                                        !.gallery = @ \cup {Key("walking-base", Null)}]
                /\ net' = Sent(reqs4) @@ net
           ELSE /\ pipe' = [pipe EXCEPT !.pc = "load", !.batch = <<>>]
                /\ UNCHANGED net
    /\ UNCHANGED <<files, dirs, up, assets, sessions, gen, reqs, lastRec, svcVars>>

\* the walking views have returned: they are collected and the walking mesh
\* is requested when the list qualifies
Phase4Join ==
    /\ pipe.pc = "p4v" /\ Joined
    /\ LET walkingViewUrls == Collect(pipe.walkingImageUrl, "walking-view")
           reqsM == Phase4ModelRequests(pipe.mt, walkingViewUrls, pipe.sid)
       IN  IF QualifiesForMesh(walkingViewUrls)
           THEN /\ pipe' = [pipe EXCEPT !.pc = "p4m", !.walkingViewUrls = walkingViewUrls,
                                        !.batch = Keys(reqsM),
                                        !.gallery = @ \cup ShownViews("walking-view")]
                /\ net' = Sent(reqsM) @@ net
           ELSE /\ pipe' = [pipe EXCEPT !.pc = "load", !.walkingViewUrls = walkingViewUrls,
                                        !.batch = <<>>,
                                        !.gallery = @ \cup ShownViews("walking-view")]
                /\ UNCHANGED net
    /\ UNCHANGED <<files, dirs, up, assets, sessions, gen, reqs, lastRec, svcVars>>

\* the walking mesh request has returned; its result is only logged
Phase4ModelJoin ==
    /\ pipe.pc = "p4m" /\ Joined
    /\ LET walkingModel == net[Key("walking-3d", Null)].resp
       IN  IF Phase4Error(walkingModel) # "" THEN Fail(Phase4Error(walkingModel))
           ELSE pipe' = [pipe EXCEPT !.pc = "load", !.batch = <<>>]
    /\ UNCHANGED <<files, dirs, up, assets, sessions, gen, reqs, net, lastRec, svcVars>>

\* FINAL: `if (idleModelData.modelUrl) await loadCharacterModel(...) else
\* throw`; the load resolves and the loading modal is hidden, or it rejects
LoadModel(ok) ==
    /\ pipe.pc = "load"
    /\ IF net[Key("idle-3d", Null)].resp.url = NoUrl THEN Fail("no-model-url")
       ELSE IF ~ok THEN FailLoad("model-load")
       ELSE pipe' = hideLoading([pipe EXCEPT !.pc = "done"])
    /\ UNCHANGED <<files, dirs, up, assets, sessions, gen, reqs, net, lastRec, svcVars>>

\* the first timer of the catch block fires: the fallback ground is created
\* and the second timer set
FallbackTimer ==
    /\ pipe.timer = "fallback"
    /\ pipe' = createFallbackGround([pipe EXCEPT !.timer = "hide"])
    /\ UNCHANGED <<files, dirs, up, assets, sessions, gen, reqs, net, lastRec, svcVars>>

\* the second timer fires: the loading modal is hidden
HideTimer ==
    /\ pipe.timer = "hide"
    /\ pipe' = hideLoading([pipe EXCEPT !.timer = "none"])
    /\ UNCHANGED <<files, dirs, up, assets, sessions, gen, reqs, net, lastRec, svcVars>>

ModelTypes == {"trellis", "rodin"}

\* one run of the pipeline for a new session, every request free to fail
NextPipe ==
    \/ \E mt \in ModelTypes : Submit("s1", mt)
    \/ \E i \in 1..5, ok \in BOOLEAN : Serve(i, ok)
    \/ Phase1Join
    \/ Phase2Join
    \/ \E ok \in BOOLEAN : TextureLoaded(ok)
    \/ Phase3Join
    \/ Phase4Join
    \/ Phase4ModelJoin
    \/ \E ok \in BOOLEAN : LoadModel(ok)
    \/ FallbackTimer
    \/ HideTimer

SpecPipe == Init /\ [][NextPipe]_vars

\* the same run where every request sent is answered, every load resolves or
\* rejects, every continuation runs and every timer fires
SpecPipeLive == Init /\ [][NextPipe]_vars /\ WF_vars(NextPipe)

\* ---- runs of the pipeline for one session of the default model type, one
\* after the other, with the session deleted at any moment; at most MaxFail
\* provider calls and loads fail in all.  The timers of the catch block, which
\* touch the scene and the loading modal only, are left out.
ServeWithin(i, ok) == (ok \/ pipe.fails < MaxFail) /\ Serve(i, ok)
TextureLoadedWithin(ok) == (ok \/ pipe.fails < MaxFail) /\ TextureLoaded(ok)
LoadModelWithin(ok) == (ok \/ pipe.fails < MaxFail) /\ LoadModel(ok)

NextRerun ==
    \/ Submit("s1", DEFAULT_MODEL_TYPE)
    \/ Resume
    \/ \E i \in 1..5, ok \in BOOLEAN : ServeWithin(i, ok)
    \/ Phase1Join
    \/ Phase2Join
    \/ \E ok \in BOOLEAN : TextureLoadedWithin(ok)
    \/ Phase3Join
    \/ Phase4Join
    \/ Phase4ModelJoin
    \/ \E ok \in BOOLEAN : LoadModelWithin(ok)
    \/ DeleteSession("s1")

SpecRerun == Init /\ [][NextRerun]_vars

\* ---- the store alone: sequences of recordAsset calls
\* One call of recordAsset; lastRec remembers the row of the call under the
\* row's four key columns.  The table is kept to MaxRec rows.
RecordAsset(sessionId, assetType, filePath, pose, viewName, remoteUrl, requestId) ==
    /\ BagCardinality(assets) < MaxRec
    /\ assets' = recordAsset(assets, sessionId, assetType, filePath, pose, viewName,
                             remoteUrl, requestId)
    /\ lastRec' = (<<sessionId, assetType, pose, viewName>> :>
                        Row(sessionId, assetType, pose, viewName, filePath, remoteUrl, requestId))
                  @@ lastRec
    /\ UNCHANGED <<files, dirs, up, sessions, gen, reqs, pipe, net, svcVars>>

\* the calls the generation endpoints make for a session: the ground texture
\* (no pose, no view name), the idle mesh (no view name), the idle front
\* image and the idle back view
StoreArgs ==
    {RecordGeneratedArgs(q) : q \in
        {Req("texture", "s1", Null, Null, Null, <<>>),
         Req("model", "s1", DEFAULT_POSE, Null, DEFAULT_MODEL_TYPE, <<>>),
         Req("character", "s1", DEFAULT_POSE, Null, Null, <<>>),
         Req("view", "s1", DEFAULT_POSE, "back", Null, <<>>)}}

NextStore ==
    \E a \in StoreArgs, n \in 1..2 :
        RecordAsset(a.sessionId, a.assetType, a.filePath, a.pose, a.viewName,
                    RemoteUrl(a.filePath, n), n)

SpecStore == Init /\ [][NextStore]_vars

\* ---- the generation endpoints with the session service: sessions are
\* created and deleted, artifacts generated, assetExists asked
\* POST /api/sessions/create -> createSession: the row is inserted, then the
\* session's directories are made.  The id is a fresh uuid.
CreateSession(sid, mt) ==
    /\ up
    /\ sid \notin SessionIds \cup deleted
    /\ sessions' = InsertSession(sessions, sid, mt, clock)
    /\ dirs' = dirs \cup SessionDirs(sid)
    /\ UNCHANGED <<files, up, assets, gen, reqs, pipe, net, lastRec, svcVars>>

\* DELETE /api/sessions/:id has run deleteSession to its end
DeleteSessionCompletes(sessionId) ==
    /\ deleteSession(sessionId)
    /\ deleted' = deleted \cup {sessionId}
    /\ UNCHANGED <<clock, gets, probe, resolve, auxVars>>

\* mutant of assetExistsResult: the row's path is returned unchecked
assetExistsResultUnchecked(row) ==
    IF row # {} THEN (CHOOSE r \in row : TRUE).file_path ELSE Null

\* assetExists after its query: `asset && existsSync(asset.file_path)` gives
\* the row's path, anything else null.  `row` holds the row db.get returned,
\* or nothing.
assetExistsResult(row) ==
    IF row # {} /\ existsSync((CHOOSE r \in row : TRUE).file_path)
    THEN (CHOOSE r \in row : TRUE).file_path
    ELSE Null

\* GET /api/sessions/:id/assets/check -> assetExists, to its await: db.get
\* returns one of the rows the query selects (the first the scan finds), or
\* nothing when none matches.  `late`: a deleteSession of the session had
\* completed when the call was made.
AssetExistsQuery(sessionId, assetType, pose, viewName) ==
    /\ up
    /\ probe.pc \in {"idle", "done"}
    /\ LET found == Matching(assets, sessionId, assetType, pose, viewName)
           asked == [pc |-> "queried", args |-> <<sessionId, assetType, pose, viewName>>,
                     row |-> {}, result |-> Null, late |-> sessionId \in deleted]
       IN  IF found = {} THEN probe' = asked
           ELSE \E r \in found : probe' = [asked EXCEPT !.row = {r}]
    /\ UNCHANGED <<files, dirs, up, assets, sessions, gen, reqs, pipe, net, lastRec,
                   clock, gets, deleted, resolve, auxVars>>

\* assetExists resumes after the query and returns
AssetExistsReturn ==
    /\ up
    /\ probe.pc = "queried"
    /\ probe' = [probe EXCEPT !.pc = "done", !.result = assetExistsResult(probe.row)]
    /\ UNCHANGED <<files, dirs, up, assets, sessions, gen, reqs, pipe, net, lastRec,
                   clock, gets, deleted, resolve, auxVars>>

\* the generation requests of SpecAssets: the ground texture and the idle
\* back view of a session, and the idle front image in the legacy scope
AssetInputs ==
    {Req("texture", "s1", Null, Null, Null, <<>>),
     Req("view", "s1", DEFAULT_POSE, "back", Null, Imgs(1)),
     Req("character", Null, DEFAULT_POSE, Null, Null, <<>>)}

\* the assetExists calls of SpecAssets
ProbeArgs ==
    {<<"s1", "ground", Null, Null>>,
     <<"s1", "character", Null, Null>>,
     <<"s1", "character", DEFAULT_POSE, "back">>}

NextAssets ==
    \/ CreateSession("s1", DEFAULT_MODEL_TYPE)
    \/ \E r \in 1..AssetReq, q \in AssetInputs : Start(r, q)
    \/ \E r \in Slots : Lookup(r)
    \/ \E r \in Slots, ok \in BOOLEAN : ProviderReturn(r, ok)
    \/ \E r \in Slots, ok \in BOOLEAN : DownloadEnd(r, ok)
    \/ \E r \in Slots : RecordDone(r)
    \/ DeleteSessionCompletes("s1")
    \/ \E a \in ProbeArgs : AssetExistsQuery(a[1], a[2], a[3], a[4])
    \/ AssetExistsReturn

SpecAssets == Init /\ [][NextAssets]_vars

\* ---- the path resolver alone: getAssetPath and getAssetUrl are called for
\* two argument tuples <<sessionId, assetType, pose, fileName>> of one scope
ScopeArgs == {Null, "s1"}
TypeArgs == {"character", "models"}
PoseArgs == {Null, "", "idle", "walking"}
FileArgs == {Null, "", "front.png", "idle", "idle/front.png"}
PathArgs == ScopeArgs \X TypeArgs \X PoseArgs \X FileArgs

InitPath ==
    /\ InitServer
    /\ check = NoCheck
    /\ resolve \in {r \in {[NoResolve EXCEPT !.a = x, !.b = y] : x, y \in PathArgs} :
                        r.a[1] = r.b[1]}

ResolvePaths ==
    /\ ~resolve.done
    /\ LET a == resolve.a
           b == resolve.b
       IN  resolve' = [resolve EXCEPT
                !.done = TRUE,
                !.pa = JoinSegments(getAssetPath(a[1], a[2], a[3], a[4])),
                !.pb = JoinSegments(getAssetPath(b[1], b[2], b[3], b[4])),
                !.ua = JoinSegments(getAssetUrl(a[1], a[2], a[3], a[4])),
                !.ub = JoinSegments(getAssetUrl(b[1], b[2], b[3], b[4]))]
    /\ UNCHANGED <<files, dirs, up, assets, sessions, gen, reqs, pipe, net, lastRec,
                   clock, gets, probe, deleted, auxVars>>

NextPath == ResolvePaths

SpecPath == InitPath /\ [][NextPath]_vars

\* ---- the image endpoints with requests that fail their checks: a view
\* without a prompt ("front", whose file generate-character writes, and
\* "top"), a pose without a prompt ("idle", "dancing"), a pose asked for
\* while the idle front image is missing or only in the legacy scope
EagerInputs ==
    {Req("character", "s1", DEFAULT_POSE, Null, Null, <<>>),
     Req("character", Null, DEFAULT_POSE, Null, Null, <<>>),
     Req("view", "s1", DEFAULT_POSE, "front", Null, Imgs(1)),
     Req("view", "s1", DEFAULT_POSE, "top", Null, Imgs(1)),
     Req("pose", "s1", "idle", Null, Null, <<>>),
     Req("pose", "s1", "dancing", Null, Null, <<>>),
     Req("pose", "s1", "walking", Null, Null, <<>>)}

NextEager ==
    \/ \E r \in 1..EagerReq, q \in EagerInputs : Start(r, q)
    \/ \E r \in Slots : Lookup(r)
    \/ \E r \in Slots, ok \in BOOLEAN : ProviderReturn(r, ok)
    \/ \E r \in Slots, ok \in BOOLEAN : DownloadEnd(r, ok)
    \/ \E r \in Slots : RecordDone(r)

SpecEager == Init /\ [][NextEager]_vars

\* ---- the session service under concurrent calls.  The database handle runs
\* its statements in parallel mode (serialize is left when initDatabase
\* returns): statements of different calls are executed one at a time, in an
\* order that need not be the order they were submitted in.
\* the clock new Date() reads
Tick ==
    /\ clock < MaxClock
    /\ clock' = clock + 1
    /\ UNCHANGED <<files, dirs, up, assets, sessions, gen, reqs, pipe, net, lastRec,
                   gets, probe, deleted, resolve, auxVars>>

\* getSession, to the submission of its UPDATE: the SELECT has returned; when
\* it found a row (session holds it, and is empty otherwise), the UPDATE is
\* submitted with the time read then
GetSessionSelect(sessionId) ==
    /\ up
    /\ Len(gets) < MaxGet
    /\ gets' = Append(gets,
                 IF sessionId \in SessionIds
                 THEN [pc |-> "update", id |-> sessionId, now |-> clock,
                       session |-> {sessions[sessionId]}]
                 ELSE [pc |-> "done", id |-> sessionId, now |-> clock, session |-> {}])
    /\ UNCHANGED <<files, dirs, up, assets, sessions, gen, reqs, pipe, net, lastRec,
                   clock, probe, deleted, resolve, auxVars>>

\* getSession, from the execution of its UPDATE: the row is returned as the
\* SELECT read it
GetSessionUpdate(g) ==
    /\ g \in DOMAIN gets
    /\ gets[g].pc = "update"
    /\ sessions' = UpdateWhereId(sessions, gets[g].id,
                                 [k \in DOMAIN sessions |-> touch(sessions[k], gets[g].now)])
    /\ gets' = [gets EXCEPT ![g].pc = "done"]
    /\ UNCHANGED <<files, dirs, up, assets, gen, reqs, pipe, net, lastRec,
                   clock, probe, deleted, resolve, auxVars>>

\* PATCH /api/sessions/:id -> updateSession with a game state
UpdateSession(sessionId, gameState) ==
    /\ up
    /\ sessionId \in SessionIds
    /\ sessions[sessionId].game_state # gameState
    /\ sessions' = UpdateWhereId(sessions, sessionId,
                                 [k \in DOMAIN sessions |->
                                     setGameState(sessions[k], gameState, clock)])
    /\ UNCHANGED <<files, dirs, up, assets, gen, reqs, pipe, net, lastRec, svcVars>>

NextAccess ==
    \/ Tick
    \/ \E sid \in {"s1", "s2"} : CreateSession(sid, DEFAULT_MODEL_TYPE)
    \/ \E sid \in {"s1", "s2"} : GetSessionSelect(sid)
    \/ \E g \in 1..MaxGet : GetSessionUpdate(g)
    \/ UpdateSession("s1", "saved")
    \/ DeleteSessionCompletes("s1")

SpecAccess == Init /\ [][NextAccess]_vars

\* ---- checkAssetExists alone, over the disks that hold some of the files
\* its arguments can resolve to
\* mutant of checkAssetExists: the legacy path is tried first
checkAssetExistsLegacyFirst(fs, ds, sessionId, assetType, pose, fileName) ==
    LET sessionPath == getAssetPath(sessionId, assetType, pose, fileName)
        legacyPath == getAssetPath(Null, assetType, pose, fileName)
    IN  IF legacyPath \in DOMAIN fs \cup ds
        THEN [exists |-> TRUE, path |-> legacyPath,
              url |-> getAssetUrl(Null, assetType, pose, fileName), isLegacy |-> TRUE]
        ELSE IF Truthy(sessionId) /\ sessionPath \in DOMAIN fs \cup ds
        THEN [exists |-> TRUE, path |-> sessionPath,
              url |-> getAssetUrl(sessionId, assetType, pose, fileName), isLegacy |-> FALSE]
        ELSE [exists |-> FALSE, path |-> sessionPath,
              url |-> getAssetUrl(sessionId, assetType, pose, fileName), isLegacy |-> FALSE]

\* checkAssetExists on the disk (fs, ds); isLegacy is FALSE where the code
\* leaves it out of the result
checkAssetExists(fs, ds, sessionId, assetType, pose, fileName) ==
    LET sessionPath == getAssetPath(sessionId, assetType, pose, fileName)
        legacyPath == getAssetPath(Null, assetType, pose, fileName)
    IN  IF Truthy(sessionId) /\ sessionPath \in DOMAIN fs \cup ds
        THEN [exists |-> TRUE, path |-> sessionPath,
              url |-> getAssetUrl(sessionId, assetType, pose, fileName), isLegacy |-> FALSE]
        ELSE IF legacyPath \in DOMAIN fs \cup ds
        THEN [exists |-> TRUE, path |-> legacyPath,
              url |-> getAssetUrl(Null, assetType, pose, fileName), isLegacy |-> TRUE]
        ELSE [exists |-> FALSE,
              path |-> IF Truthy(sessionId) THEN sessionPath ELSE legacyPath,
              url |-> IF Truthy(sessionId)
                      THEN getAssetUrl(sessionId, assetType, pose, fileName)
                      ELSE getAssetUrl(Null, assetType, pose, fileName),
              isLegacy |-> FALSE]

CheckArgs ==
    ({Null, "", "s1"} \X {"character"} \X {Null, "idle"} \X {FRONT_FILE})
    \cup ({Null, "", "s1"} \X {"ground"} \X {Null} \X {GROUND_FILE})
CheckPaths == {getAssetPath(a[1], a[2], a[3], a[4]) : a \in CheckArgs}

InitCheck ==
    /\ \E present \in SUBSET CheckPaths :
            /\ files = [p \in present |-> RemoteUrl(p, 1)]
            /\ dirs = StartupDirs \cup UNION {Ancestors(dirname(p)) : p \in present}
    /\ check \in {[NoCheck EXCEPT !.args = a] : a \in CheckArgs}
    /\ up = TRUE
    /\ assets = EmptyBag
    /\ sessions = <<>>
    /\ gen = <<>>
    /\ reqs = [r \in Slots |-> FreeSlot]
    /\ pipe = NoPipe
    /\ net = <<>>
    /\ lastRec = <<>>
    /\ clock = 0
    /\ gets = <<>>
    /\ probe = NoProbe
    /\ deleted = {}
    /\ sweep = NoSweep
    /\ resolve = NoResolve
    /\ ext = NoExt
    /\ got = NoChunks
    /\ game = NoGame

CheckAssetExists ==
    /\ ~check.done
    /\ LET a == check.args
           found == checkAssetExists(files, dirs, a[1], a[2], a[3], a[4])
       IN  check' = [check EXCEPT !.done = TRUE, !.exists = found.exists,
                                  !.path = found.path, !.url = found.url,
                                  !.isLegacy = found.isLegacy]
    /\ UNCHANGED <<files, dirs, up, assets, sessions, gen, reqs, pipe, net, lastRec,
                   clock, gets, probe, deleted, resolve, sweep, ext, got, game>>

NextCheck == CheckAssetExists

SpecCheck == InitCheck /\ [][NextCheck]_vars

\* ---- opening a session of the session list (startSessionGame and
\* checkAndLoadSessionAssets).  game.pc is the await the call is suspended
\* at; game.grounds counts the createGround calls of the direct load.
GameFrame ==
    UNCHANGED <<files, dirs, up, assets, gen, reqs, lastRec,
                clock, gets, probe, deleted, resolve, sweep, check, ext, got>>
GroundPath(sid) == ReqPath(Req("texture", sid, Null, Null, Null, <<>>))
IdleModelPath(sid) == ReqPath(Req("model", sid, DEFAULT_POSE, Null, Null, <<>>))

\* getSessionAssets: SELECT * FROM assets WHERE session_id = ?
getSessionAssets(table, sessionId) == {r \in BagToSet(table) : r.session_id = sessionId}

\* mutant of NeedsGeneration: the idle model is not asked for
NeedsGenerationGroundOnly(hasGround, hasIdleModel) == ~hasGround

\* `if (!hasGround || !hasIdleModel) return false`
NeedsGeneration(hasGround, hasIdleModel) == ~hasGround \/ ~hasIdleModel

\* checkAndLoadSessionAssets returns false: startSessionGame shows the
\* loading modal and calls generateAllAssets
Generate(why) ==
    /\ game' = [game EXCEPT !.pc = "generated", !.why = why]
    /\ Begin(game.sid, game.mt, pipe.pc,
             {k \in DOMAIN net : net[k].resp.success /\ ~net[k].resp.cached})

\* startSessionGame on a page just loaded: loadSession (GET /api/sessions/:id,
\* which touches last_accessed) and, with a session, the asset query is sent
StartSessionGame(sessionId) ==
    /\ up
    /\ game.pc \in {"none", "ready", "generated"} /\ game.opens < MaxOpen
    /\ pipe.pc \in {"done", "failed"}
    /\ sessions' = UpdateWhereId(sessions, sessionId,
                                 [k \in DOMAIN sessions |-> touch(sessions[k], clock)])
    /\ IF sessionId \in SessionIds
       THEN game' = [NoGame EXCEPT !.pc = "assets", !.sid = sessionId,
                                   !.opens = game.opens + 1,
                                   !.mt = sessions[sessionId].model_type]
       ELSE game' = [NoGame EXCEPT !.opens = game.opens + 1]
    /\ UNCHANGED <<pipe, net>>
    /\ GameFrame

\* GET /api/sessions/:id/assets has returned (ok), or failed
AssetsAnswer(ok) ==
    /\ game.pc = "assets"
    /\ LET rows == getSessionAssets(assets, game.sid)
       IN  IF ~ok THEN Generate("query-failed")
           ELSE IF rows = {} THEN Generate("no-assets")
           ELSE /\ game' = [game EXCEPT !.pc = "head",
                                        !.hasGround = \E a \in rows : a.asset_type = "ground"]
                /\ UNCHANGED <<pipe, net>>
    /\ UNCHANGED sessions
    /\ GameFrame

\* HEAD /assets/<session>/models/character_idle.glb has returned
HeadAnswer ==
    /\ game.pc = "head"
    /\ LET hasIdleModel == up /\ existsSync(IdleModelPath(game.sid))
       IN  IF NeedsGeneration(game.hasGround, hasIdleModel)
           THEN /\ Generate("missing")
                /\ UNCHANGED sessions
           ELSE /\ game' = [game EXCEPT !.pc = "ground", !.hasIdleModel = hasIdleModel]
                /\ UNCHANGED <<pipe, net, sessions>>
    /\ GameFrame

\* textureLoader.load of the stored ground texture resolves (ok), which takes
\* the file, or rejects; createGround; loadCharacterModel is called
GroundLoaded(ok) ==
    /\ game.pc = "ground"
    /\ ok => up /\ existsSync(GroundPath(game.sid))
    /\ IF ok
       THEN /\ game' = [game EXCEPT !.pc = "model", !.grounds = @ + 1]
            /\ UNCHANGED <<pipe, net>>
       ELSE Generate("load-failed")
    /\ UNCHANGED sessions
    /\ GameFrame

\* loadCharacterModel of the stored idle mesh resolves (ok), which takes the
\* file, or rejects
ModelLoaded(ok) ==
    /\ game.pc = "model"
    /\ ok => up /\ existsSync(IdleModelPath(game.sid))
    /\ IF ok
       THEN /\ game' = [game EXCEPT !.pc = "ready"]
            /\ pipe' = hideLoading(pipe)
            /\ UNCHANGED net
       ELSE Generate("load-failed")
    /\ UNCHANGED sessions
    /\ GameFrame

NextGame ==
    \/ Submit("s1", DEFAULT_MODEL_TYPE)
    \/ \E i \in 1..5, ok \in BOOLEAN : ServeWithin(i, ok)
    \/ Phase1Join
    \/ Phase2Join
    \/ \E ok \in BOOLEAN : TextureLoadedWithin(ok)
    \/ Phase3Join
    \/ Phase4Join
    \/ Phase4ModelJoin
    \/ \E ok \in BOOLEAN : LoadModelWithin(ok)
    \/ FallbackTimer
    \/ HideTimer
    \/ DeleteSession("s1")
    \/ StartSessionGame("s1")
    \/ \E ok \in BOOLEAN : AssetsAnswer(ok)
    \/ HeadAnswer
    \/ \E ok \in BOOLEAN : GroundLoaded(ok)
    \/ \E ok \in BOOLEAN : ModelLoaded(ok)

SpecGame == Init /\ [][NextGame]_vars

\* ---- deleteSession among generation requests that all arrived before it
StartBeforeDelete(r, q) ==
    /\ q.sid \notin deleted
    /\ Start(r, q)

NextDelete ==
    \/ CreateSession("s1", DEFAULT_MODEL_TYPE)
    \/ \E r \in 1..AssetReq, q \in AssetInputs : StartBeforeDelete(r, q)
    \/ \E r \in Slots : Lookup(r)
    \/ \E r \in Slots, ok \in BOOLEAN : ProviderReturn(r, ok)
    \/ \E r \in Slots, ok \in BOOLEAN : DownloadEnd(r, ok)
    \/ \E r \in Slots : RecordDone(r)
    \/ DeleteSessionCompletes("s1")

SpecDelete == Init /\ [][NextDelete]_vars

\* ---- requests of several scopes side by side.  The handlers take the
\* session id of the request as it comes: "s1" is the id of a session,
\* "character" is the name of a directory of the legacy tree
IsolationIds == {"s1", "character"}
IsolationInputs ==
    {Req("character", Null, DEFAULT_POSE, Null, Null, <<>>),
     Req("texture", "s1", Null, Null, Null, <<>>),
     Req("character", "character", DEFAULT_POSE, Null, Null, <<>>)}

\* DELETE /api/sessions/:id, once for an id
DeleteOnce(sessionId) ==
    /\ sessionId \notin deleted
    /\ DeleteSessionCompletes(sessionId)

NextIsolation ==
    \/ CreateSession("s1", DEFAULT_MODEL_TYPE)
    \/ UpdateSession("s1", "g1")
    \/ \E r \in 1..AssetReq, q \in IsolationInputs : Start(r, q)
    \/ \E r \in Slots : Lookup(r)
    \/ \E r \in Slots, ok \in BOOLEAN : ProviderReturn(r, ok)
    \/ \E r \in Slots, ok \in BOOLEAN : DownloadEnd(r, ok)
    \/ \E r \in Slots : RecordDone(r)
    \/ \E s \in IsolationIds : DeleteOnce(s)

SpecIsolation == Init /\ [][NextIsolation]_vars

\* ---- the same assets asked for in legacy scope and in session scope
LegacyInputs ==
    {Req("texture", Null, Null, Null, Null, <<>>),
     Req("texture", "s1", Null, Null, Null, <<>>),
     Req("character", Null, DEFAULT_POSE, Null, Null, <<>>),
     Req("character", "s1", DEFAULT_POSE, Null, Null, <<>>)}

NextLegacy ==
    \/ \E r \in 1..AssetReq, q \in LegacyInputs : Start(r, q)
    \/ \E r \in Slots : Lookup(r)
    \/ \E r \in Slots, ok \in BOOLEAN : ProviderReturn(r, ok)
    \/ \E r \in Slots, ok \in BOOLEAN : DownloadEnd(r, ok)
    \/ \E r \in Slots : RecordDone(r)

SpecLegacy == Init /\ [][NextLegacy]_vars

\* ---- generate-pose with and without the idle images of the two scopes
PoseInputs ==
    {Req("character", Null, DEFAULT_POSE, Null, Null, <<>>),
     Req("character", "s1", DEFAULT_POSE, Null, Null, <<>>),
     Req("pose", "s1", "walking", Null, Null, <<>>)}

NextPose ==
    \/ \E r \in Slots, q \in PoseInputs : Start(r, q)
    \/ \E r \in Slots : Lookup(r)
    \/ \E r \in Slots, ok \in BOOLEAN : ProviderReturn(r, ok)
    \/ \E r \in Slots, ok \in BOOLEAN : DownloadEnd(r, ok)
    \/ \E r \in Slots : RecordDone(r)
    \/ DeleteSession("s1")

SpecPose == Init /\ [][NextPose]_vars

\* ---- mesh requests that name different reconstruction providers
MeshCacheInputs ==
    {Req("model", s, p, Null, m, Imgs(1)) :
        s \in SessionArgs, p \in {DEFAULT_POSE, "walking"}, m \in {"trellis", "rodin"}}

NextMeshCache ==
    \/ \E r \in 1..AssetReq, q \in MeshCacheInputs : Start(r, q)
    \/ \E r \in Slots, ok \in BOOLEAN : ProviderReturn(r, ok)
    \/ \E r \in Slots, ok \in BOOLEAN : DownloadEnd(r, ok)
    \/ \E r \in Slots : RecordDone(r)

SpecMeshCache == Init /\ [][NextMeshCache]_vars

\* ---- the meme posters of one run (createMemePosters): one generate-meme
\* request for each poster, sent together
PosterFiles ==
    {"hackathons-meme.png", "digitalocean-meme.png", "blackforestlabs-meme.png",
     "cerebralvalley-meme.png"}
PosterReq(sid, filename) == Req("meme", sid, Null, filename, Null, <<>>)

\* createSinglePoster sends its request
StartPoster(r, filename) ==
    /\ \A k \in Slots : reqs[k].pc # "free" => reqs[k].q.view # filename
    /\ Start(r, PosterReq("s1", filename))

NextPosters ==
    \/ \E r \in Slots, f \in PosterFiles : StartPoster(r, f)
    \/ \E r \in Slots, ok \in BOOLEAN : ProviderReturn(r, ok)
    \/ \E r \in Slots, ok \in BOOLEAN : DownloadEnd(r, ok)
    \/ \E r \in Slots : RecordDone(r)

SpecPosters == Init /\ [][NextPosters]_vars

\* ---- the orchestrator while time passes: fetch is called without a signal
\* and nothing races the awaits, so the clock is no input of any step of
\* generateAllAssets
NextWait ==
    \/ NextPipe
    \/ Tick

SpecWait == Init /\ [][NextWait]_vars

\* ---- downloadFile, chunk by chunk
\* the bytes of `k` chunks of the artifact at `u`, short of the whole
PartOf(u, k) == [kind |-> "partial", at |-> u.at, n |-> k]

\* mutant of OnData: the chunk is written through to the file
OnDataStreamed(fs, path, u, k) == (path :> PartOf(u, k)) @@ fs

\* the disk after the 'data' callback of downloadFile: `chunks.push(chunk)`
\* keeps the chunk in memory
OnData(fs, path, u, k) == fs

\* a 'data' event of the download of slot r
DownloadData(r) ==
    /\ up
    /\ reqs[r].pc = "download"
    /\ got[r] < ArtifactChunks
    /\ got' = [got EXCEPT ![r] = @ + 1]
    /\ files' = OnData(files, ReqPath(reqs[r].q), reqs[r].url, got[r] + 1)
    /\ UNCHANGED <<dirs, up, assets, sessions, gen, reqs, pipe, net, lastRec,
                   clock, gets, probe, deleted, resolve, sweep, check, ext, game>>

\* the 'end' event comes after every chunk, and writeFileSync stores
\* Buffer.concat(chunks); the 'error' event (~ok) may come at any moment
DownloadEndOfData(r, ok) ==
    /\ ok => got[r] = ArtifactChunks
    /\ DownloadEnd(r, ok)

DownloadInputs ==
    {Req("view", "s1", DEFAULT_POSE, "back", Null, Imgs(1)),
     Req("texture", Null, Null, Null, Null, <<>>)}

NextDownload ==
    \/ \E r \in Slots, q \in DownloadInputs : Start(r, q)
    \/ \E r \in Slots : Lookup(r)
    \/ \E r \in Slots, ok \in BOOLEAN : ProviderReturn(r, ok)
    \/ \E r \in Slots : DownloadData(r)
    \/ \E r \in Slots, ok \in BOOLEAN : DownloadEndOfData(r, ok)
    \/ \E r \in Slots : RecordDone(r)

SpecDownload == Init /\ [][NextDownload]_vars

\* ---- the extended client (generateAllAssets with the environment track
\* and the riddle track).  A phase of requests is one step here, with the
\* outcome that matters to the run; ext.pc is the await the run is suspended
\* at, ext.env, ext.riddle and ext.puzzle the state of each side-track call:
\* "none" (not started), "running", "ok" or "failed" (resolved with
\* success true or false).
ExtFrame ==
    UNCHANGED <<files, dirs, up, assets, sessions, gen, reqs, pipe, net, lastRec,
                clock, gets, probe, deleted, resolve, sweep, check, got, game>>
ExtAt(pc) == ext.pc = pc
ExtGo(pc) == ext' = [ext EXCEPT !.pc = pc]
ExtFail(why) == ext' = [ext EXCEPT !.pc = "failed", !.why = why]
Ended(status) == status \in {"ok", "failed"}

\* mutant of EnvError: a failed environment item is thrown
EnvErrorThrows(results) == IF \E i \in DOMAIN results : results[i] = "failed" THEN "env" ELSE ""

\* what the run throws on the results of the environment track: a failed
\* item is logged with console.warn
EnvError(results) == ""

ExtBegin == ExtAt("off") /\ ExtGo("p1") /\ ExtFrame

\* Phase 1 has returned: throw, or start generateRiddlePuzzle, the two
\* createEnv and the five createCharacterThemedObject, and send Phase 2
ExtPhase1(ok) ==
    /\ ExtAt("p1")
    /\ IF ~ok THEN ExtFail("phase1")
       ELSE ext' = [ext EXCEPT !.pc = "p2", !.riddle = "running",
                               !.env = [i \in EnvItems |-> "running"]]
    /\ ExtFrame

\* a createEnv or createCharacterThemedObject call resolves: its try block
\* ran to the end, or its catch block returned {success: false}
EnvItemEnds(i, ok) ==
    /\ ext.env[i] = "running"
    /\ ext' = [ext EXCEPT !.env[i] = IF ok THEN "ok" ELSE "failed"]
    /\ ExtFrame

\* generateRiddlePuzzle resolves
RiddleEnds(ok) ==
    /\ ext.riddle = "running"
    /\ ext' = [ext EXCEPT !.riddle = IF ok THEN "ok" ELSE "failed"]
    /\ ExtFrame

\* Phase 2 has returned
ExtPhase2 == ExtAt("p2") /\ ExtGo("tex") /\ ExtFrame

\* `await groundTexturePromise`, then `await createMemePosters(...)`, whose
\* posters catch their errors, and Phase 3 is sent
ExtTextureLoaded(ok) ==
    /\ ExtAt("tex")
    /\ IF ok THEN ExtGo("p3") ELSE ExtFail("texture-load")
    /\ ExtFrame

\* Phase 3 has returned: throw on a failed idle mesh, else await the
\* environment track
ExtPhase3(idleOk) ==
    /\ ExtAt("p3")
    /\ IF idleOk THEN ExtGo("env") ELSE ExtFail("idle-3d")
    /\ ExtFrame

\* `await envGenerationPromise` resumes: Promise.all has every item; the
\* models of the items that succeeded are placed (a load that fails is
\* caught), the altar is made and loadNemotronModel awaited
ExtEnvJoin ==
    /\ ExtAt("env")
    /\ \A i \in EnvItems : Ended(ext.env[i])
    /\ IF EnvError(ext.env) # "" THEN ExtFail(EnvError(ext.env)) ELSE ExtGo("nemotron")
    /\ ExtFrame

\* loadNemotronModel resolves or rejects; then the riddle is awaited
ExtNemotronLoaded(ok) ==
    /\ ExtAt("nemotron")
    /\ IF ok THEN ExtGo("riddle") ELSE ExtFail("nemotron-load")
    /\ ExtFrame

\* `await riddleGenerationPromise` resumes: with a riddle the five
\* generatePuzzleObject calls are started and awaited, without one Phase 4
\* is sent
ExtRiddleJoin ==
    /\ ExtAt("riddle")
    /\ Ended(ext.riddle)
    /\ IF ext.riddle = "ok"
       THEN ext' = [ext EXCEPT !.pc = "puzzle", !.puzzle = [j \in PuzzleItems |-> "running"]]
       ELSE ExtGo("p4")
    /\ ExtFrame

\* a generatePuzzleObject call resolves
PuzzleItemEnds(j, ok) ==
    /\ ext.puzzle[j] = "running"
    /\ ext' = [ext EXCEPT !.puzzle[j] = IF ok THEN "ok" ELSE "failed"]
    /\ ExtFrame

\* Promise.all of the puzzle objects resumes: those that succeeded are
\* placed, and Phase 4 is sent
ExtPuzzleJoin ==
    /\ ExtAt("puzzle")
    /\ \A j \in PuzzleItems : Ended(ext.puzzle[j])
    /\ ExtGo("p4")
    /\ ExtFrame

\* the walking views and the walking mesh have returned
ExtPhase4 == ExtAt("p4") /\ ExtGo("load") /\ ExtFrame

\* FINAL: the idle model is loaded and the loading modal hidden, or the load
\* rejects
ExtLoadModel(ok) ==
    /\ ExtAt("load")
    /\ IF ok THEN ExtGo("done") ELSE ExtFail("model-load")
    /\ ExtFrame

NextExt ==
    \/ ExtBegin
    \/ \E ok \in BOOLEAN : ExtPhase1(ok)
    \/ \E i \in EnvItems, ok \in BOOLEAN : EnvItemEnds(i, ok)
    \/ \E ok \in BOOLEAN : RiddleEnds(ok)
    \/ ExtPhase2
    \/ \E ok \in BOOLEAN : ExtTextureLoaded(ok)
    \/ \E ok \in BOOLEAN : ExtPhase3(ok)
    \/ ExtEnvJoin
    \/ \E ok \in BOOLEAN : ExtNemotronLoaded(ok)
    \/ ExtRiddleJoin
    \/ \E j \in PuzzleItems, ok \in BOOLEAN : PuzzleItemEnds(j, ok)
    \/ ExtPuzzleJoin
    \/ ExtPhase4
    \/ \E ok \in BOOLEAN : ExtLoadModel(ok)

SpecExt == Init /\ [][NextExt]_vars

\* ---- the retention sweep among the other calls: sessions are created
\* and read, their ground textures generated, and cleanupOldSessions run with
\* a cutoff of SweepDays ticks of the clock
\* cleanupOldSessions, to the end of its SELECT: the cutoff is now minus
\* daysToKeep, and the ids of the rows with last_accessed < cutoff are taken
OldSessions(table, cutoff) ==
    {table[k].id : k \in {j \in DOMAIN table : table[j].last_accessed < cutoff}}

CleanupSelect(daysToKeep) ==
    /\ up
    /\ sweep.pc = "idle"
    /\ LET cutoff == clock - daysToKeep
           old == OldSessions(sessions, cutoff)
       IN  sweep' = [pc |-> "deleting", cutoff |-> cutoff, old |-> old, left |-> old,
                     result |-> 0]
    /\ UNCHANGED <<files, dirs, up, assets, sessions, gen, reqs, pipe, net, lastRec,
                   clock, gets, probe, deleted, resolve, check, ext, got, game>>

\* `for (const session of oldSessions) await this.deleteSession(session.id)`:
\* one turn of the loop, the rows in the order the SELECT gave them
CleanupDelete(sessionId) ==
    /\ sweep.pc = "deleting"
    /\ sessionId \in sweep.left
    /\ deleteSession(sessionId)
    /\ deleted' = deleted \cup {sessionId}
    /\ sweep' = [sweep EXCEPT !.left = @ \ {sessionId}]
    /\ UNCHANGED <<clock, gets, probe, resolve, check, ext, got, game>>

\* `return oldSessions.length`
CleanupReturn ==
    /\ sweep.pc = "deleting"
    /\ sweep.left = {}
    /\ sweep' = [sweep EXCEPT !.pc = "done", !.result = Cardinality(sweep.old)]
    /\ UNCHANGED <<files, dirs, up, assets, sessions, gen, reqs, pipe, net, lastRec,
                   clock, gets, probe, deleted, resolve, check, ext, got, game>>

SweepInputs == {Req("texture", s, Null, Null, Null, <<>>) : s \in {"s1", "s2"}}

NextSweep ==
    \/ Tick
    \/ \E sid \in {"s1", "s2"} : CreateSession(sid, DEFAULT_MODEL_TYPE)
    \/ \E sid \in {"s1", "s2"} : GetSessionSelect(sid)
    \/ \E g \in 1..MaxGet : GetSessionUpdate(g)
    \/ \E r \in 1..SweepReq, q \in SweepInputs : Start(r, q)
    \/ \E r \in Slots : ProviderReturn(r, TRUE)
    \/ \E r \in Slots : DownloadEnd(r, TRUE)
    \/ \E r \in Slots : RecordDone(r)
    \/ CleanupSelect(SweepDays)
    \/ \E sid \in {"s1", "s2"} : CleanupDelete(sid)
    \/ CleanupReturn

SpecSweep == Init /\ [][NextSweep]_vars

\* ================================================================ properties

\* C1 as stated: a request that arrives after a request for the same file was
\* answered with success is answered from the cache (cached = true, no
\* provider call) with the same artifact address.
C1_SecondRequestCached ==
    \A b \in Slots :
        (reqs[b].pc = "done" /\ reqs[b].prior # "none") =>
            /\ reqs[b].resp.success /\ reqs[b].resp.cached
            /\ ~reqs[b].called
            /\ \A a \in Answered(ReqPath(reqs[b].q)) : reqs[a].resp.url = reqs[b].resp.url

\* C1 amended: the same, for a second request that arrives while no
\* deleteSession has removed the file's tree since the first request found or
\* stored the file; the provider was then called at most once by the two.
C1_SecondRequestCachedUnlessDeleted ==
    \A b \in Slots :
        (reqs[b].pc = "done" /\ reqs[b].prior = "kept") =>
            /\ reqs[b].resp.success /\ reqs[b].resp.cached
            /\ ~reqs[b].called
            /\ \A a \in Answered(ReqPath(reqs[b].q)) : reqs[a].resp.url = reqs[b].resp.url

\* C1 witness: a generated artifact and a later request answered from cache
C1_Witness ==
    \E a, b \in Slots :
        /\ a # b
        /\ reqs[a].pc = "done" /\ reqs[a].resp.success /\ ~reqs[a].resp.cached /\ reqs[a].called
        /\ reqs[b].pc = "done" /\ reqs[b].prior = "kept" /\ reqs[b].resp.cached
        /\ ReqPath(reqs[a].q) = ReqPath(reqs[b].q)

\* the requests for the same file as slot r's that are still in their handler
InFlightWith(r) ==
    {k \in Slots \ {r} :
        /\ reqs[k].pc \in {"provider", "download", "record"}
        /\ ReqPath(reqs[k].q) = ReqPath(reqs[r].q)}

\* C2 as stated: once one request for a file has been answered with success,
\* every request for it that arrives afterwards never calls the provider and
\* is answered cached, whatever other requests for the file are in flight.
C2_ConvergesAlways ==
    \A r \in Slots :
        (reqs[r].pc # "free" /\ reqs[r].prior # "none") =>
            /\ ~reqs[r].called
            /\ reqs[r].pc \in {"lookup", "done", "lost"}
            /\ reqs[r].pc = "done" => reqs[r].resp.success /\ reqs[r].resp.cached

\* C2 amended: the same, for the requests that arrive while no deleteSession
\* has removed the file's tree since the answered request found or stored
\* the file.
C2_ConvergesUnlessDeleted ==
    \A r \in Slots :
        (reqs[r].pc # "free" /\ reqs[r].prior = "kept") =>
            /\ ~reqs[r].called
            /\ reqs[r].pc \in {"lookup", "done", "lost"}
            /\ reqs[r].pc = "done" => reqs[r].resp.success /\ reqs[r].resp.cached

\* C2 witness: a request answered from cache while a concurrent generation of
\* the same file, started before the successful answer, is still in flight
C2_Witness ==
    \E r \in Slots :
        /\ reqs[r].pc = "done" /\ reqs[r].prior = "kept" /\ reqs[r].resp.cached
        /\ \E k \in InFlightWith(r) : k < r

\* the ceiling of the claim: 6 for trellis, 5 for the other provider
Ceiling(modelType) == IF modelType = "trellis" THEN 6 ELSE 5

\* C7: the provider of a mesh request with n image URLs is sent the first
\* min(n, ceiling) of them in their order, and a request is never answered
\* with an error for its number of images: the only errors are the provider's
\* and the download's.
C7_CeilingTruncation ==
    \A r \in Slots :
        reqs[r].q.ep = "model" =>
            LET q == reqs[r].q
                n == Len(q.imgs)
                m == IF n < Ceiling(q.mt) THEN n ELSE Ceiling(q.mt)
            IN  /\ reqs[r].called =>
                    /\ Len(reqs[r].sent) = m
                    /\ \A i \in 1..m : reqs[r].sent[i] = q.imgs[i]
                /\ (reqs[r].pc = "done" /\ ~reqs[r].resp.success) =>
                    reqs[r].called /\ reqs[r].resp.error = "failed"

\* C7 witness: 7 URLs to trellis went out as their first 6 and the request
\* succeeded
C7_Witness ==
    \E a \in Slots :
        /\ reqs[a].q.ep = "model" /\ reqs[a].q.mt = "trellis" /\ Len(reqs[a].q.imgs) = 7
        /\ reqs[a].called /\ reqs[a].sent = SubSeq(reqs[a].q.imgs, 1, 6)
        /\ reqs[a].pc = "done" /\ reqs[a].resp.success /\ ~reqs[a].resp.cached

\* ---- the requests of a pipeline run, by key
GroundKey == Key("ground", Null)
IdleBaseKey == Key("idle-base", Null)
Idle3dKey == Key("idle-3d", Null)
WalkingBaseKey == Key("walking-base", Null)
Walking3dKey == Key("walking-3d", Null)
FiveViews == {"back", "left", "right", "angle_30", "angle_-30"}
IdleViewKeys == {Key("idle-view", v) : v \in FiveViews}
WalkingViewKeys == {Key("walking-view", v) : v \in FiveViews}
Failed(k) == AnsweredKey(k) /\ ~net[k].resp.success

\* the requests C3 lists: ground, idle front, the 5 idle views, the idle mesh
Listed == {GroundKey, IdleBaseKey, Idle3dKey} \cup IdleViewKeys
FirstRunFresh == pipe.prevEnd = "done" /\ Listed \subseteq pipe.prevGen

\* C3 as stated: after a run that ended Done and generated every listed
\* artifact, the next run for the session gets every listed request answered
\* cached and makes the server call the provider for nothing.
C3_RerunNoProviderCall ==
    FirstRunFresh =>
        /\ pipe.called = {}
        /\ \A k \in Listed : AnsweredKey(k) => net[k].resp.success /\ net[k].resp.cached

\* C3 amended: the same while the session has not been deleted, and the
\* provider is called for none of the listed requests (it may be called for
\* the walking pose, whose artifacts the first run need not have produced).
C3_RerunListedCached ==
    (FirstRunFresh /\ pipe.sid \in SessionIds) =>
        /\ pipe.called \cap Listed = {}
        /\ \A k \in Listed : AnsweredKey(k) => net[k].resp.success /\ net[k].resp.cached

\* C3 witness: a second run reached Done with every listed request cached,
\* after a first run that generated them all
C3_Witness ==
    /\ FirstRunFresh /\ pipe.sid \in SessionIds
    /\ pipe.pc = "done"
    /\ \A k \in Listed : AnsweredKey(k) /\ net[k].resp.cached

\* C4: an idle view request is in flight or answered only after the idle
\* front request of the run was answered with success, and its source image
\* is that front image: the provider's artifact for the front file, or the
\* front file's own address.
C4_PhaseDependency ==
    \A k \in DOMAIN net :
        (net[k].q.ep = "view" /\ net[k].q.pose = "idle") =>
            /\ Succeeded(IdleBaseKey)
            /\ Len(net[k].q.imgs) = 1
            /\ net[k].q.imgs[1] \in {net[IdleBaseKey].resp.remoteUrl, net[IdleBaseKey].resp.url}
            /\ net[k].q.imgs[1].at \in {ReqPath(net[IdleBaseKey].q), ReqUrl(net[IdleBaseKey].q)}

\* C4 witness: the five idle view requests are out, the front image generated
C4_Witness ==
    /\ pipe.pc = "p2"
    /\ IdleViewKeys \subseteq DOMAIN net
    /\ Succeeded(IdleBaseKey) /\ ~net[IdleBaseKey].resp.cached

\* C5: once a Phase 1 request has failed, the run has sent nothing but the
\* two Phase 1 requests, and it ends Failed by the Phase 1 throw.
C5_Phase1HardFailure ==
    (Failed(GroundKey) \/ Failed(IdleBaseKey)) =>
        /\ DOMAIN net = {GroundKey, IdleBaseKey}
        /\ pipe.pc \in {"p1", "failed"}
        /\ (AnsweredKey(GroundKey) /\ AnsweredKey(IdleBaseKey) /\ pipe.pc = "failed") =>
                pipe.why \in {"ground", "idle-base"}

\* C5 witness: the ground succeeded, the idle base failed, the run Failed
C5_Witness ==
    /\ Succeeded(GroundKey) /\ Failed(IdleBaseKey)
    /\ pipe.pc = "failed" /\ pipe.why = "idle-base"

\* the walking views are all answered and have been collected
WalkingCollected ==
    /\ \A k \in WalkingViewKeys : AnsweredKey(k)
    /\ pipe.pc # "p4v"
WalkingOk == Cardinality({k \in WalkingViewKeys : Succeeded(k)})

\* C6 as stated: the walking mesh is requested only if at least 3 of the 5
\* walking views succeeded, and with exactly 2 the run goes on to Done.
C6_ThreeOfFiveViews ==
    /\ Walking3dKey \in DOMAIN net => WalkingOk >= 3
    /\ (WalkingCollected /\ WalkingOk = 2) =>
            /\ Walking3dKey \notin DOMAIN net
            /\ pipe.pc \in {"load", "done"} \/ (pipe.pc = "failed" /\ pipe.why = "model-load")

\* C6 amended: the walking mesh is requested only if at least 2 of the 5
\* walking views succeeded (3 images with the front image); with exactly 1 no
\* mesh request is sent, and the run goes on to the final load and to Done
\* unless that load fails.
C6_ThreeImagesWithFront ==
    /\ Walking3dKey \in DOMAIN net => WalkingOk >= 2
    /\ (WalkingCollected /\ WalkingOk = 1) =>
            /\ Walking3dKey \notin DOMAIN net
            /\ pipe.pc \in {"load", "done"} \/ (pipe.pc = "failed" /\ pipe.why = "model-load")

\* C6 witness: exactly 1 walking view succeeded, no walking mesh, Done
C6_Witness ==
    /\ WalkingCollected /\ WalkingOk = 1
    /\ Walking3dKey \notin DOMAIN net
    /\ pipe.pc = "done"

\* the list of the claim: the front image, then the successful idle views in
\* the order back, left, right, angle_30, angle_-30
OkIdleViews ==
    SelectSeq(<<"back", "left", "right", "angle_30", "angle_-30">>,
              LAMBDA v : Succeeded(Key("idle-view", v)))
FrontAndOkIdleViews ==
    <<AddressOf(net[IdleBaseKey].resp)>>
    \o [i \in 1..Len(OkIdleViews) |-> AddressOf(net[Key("idle-view", OkIdleViews[i])].resp)]
\* no idle view failure aborts: past Phase 2 the run waits for the ground
\* texture, has sent Phase 3, or Failed by the texture load
PastPhase2 == (\A k \in IdleViewKeys : AnsweredKey(k)) /\ pipe.pc # "p2"
NotAbortedByViews ==
    PastPhase2 =>
        \/ pipe.pc = "tex"
        \/ Idle3dKey \in DOMAIN net
        \/ pipe.pc = "failed" /\ pipe.why = "texture-load"

\* C8 as stated: whatever idle views fail, the run goes on to Phase 3 and the
\* idle mesh request carries the front image and every successful view.
C8_WholeListHandedOver ==
    /\ NotAbortedByViews
    /\ Idle3dKey \in DOMAIN net => net[Idle3dKey].q.imgs = FrontAndOkIdleViews

\* C8 amended: the same, the list cut to its first 6 entries for trellis and
\* its first 5 for the other provider.
C8_CeilingListHandedOver ==
    /\ NotAbortedByViews
    /\ Idle3dKey \in DOMAIN net =>
            net[Idle3dKey].q.imgs = Take(FrontAndOkIdleViews, Ceiling(pipe.mt))

\* C8 witness: some idle views failed, left and right succeeded, the idle mesh
\* request is out
C8_Witness ==
    /\ Idle3dKey \in DOMAIN net
    /\ \E k \in IdleViewKeys : Failed(k)
    /\ Succeeded(Key("idle-view", "left")) /\ Succeeded(Key("idle-view", "right"))

\* C9: a failed idle mesh ends the run Failed by the Phase 3 throw; after a
\* failed walking base image no walking view and no walking mesh request is
\* ever sent, and the run fails only by the idle mesh or the final load.
C9_Phase3FailurePolicy ==
    /\ Failed(Idle3dKey) =>
            /\ pipe.pc \in {"p3", "failed"}
            /\ pipe.pc = "failed" => pipe.why = "idle-3d"
            /\ DOMAIN net \cap (WalkingViewKeys \cup {Walking3dKey}) = {}
    /\ Failed(WalkingBaseKey) =>
            /\ DOMAIN net \cap (WalkingViewKeys \cup {Walking3dKey}) = {}
            /\ pipe.pc \in {"p3", "load", "done", "failed"}
            /\ pipe.pc = "failed" => pipe.why \in {"idle-3d", "model-load"}
            /\ (Succeeded(Idle3dKey) /\ pipe.pc = "failed") => pipe.why = "model-load"

\* C9 witness: the walking base failed, the idle mesh succeeded and the run
\* reached Done
C9_Witness ==
    /\ Failed(WalkingBaseKey) /\ Succeeded(Idle3dKey)
    /\ pipe.pc = "done"

\* the rows of the table that carry the four key columns `key`
RowsOf(key) == {r \in BagToSet(assets) : RowKey(r) = key}

\* C10: for every tuple (sessionId, assetType, pose, viewName) recordAsset
\* was called with, the table holds at most one row, and the row is the one
\* of the most recent call.
C10_UpsertUnique ==
    \A key \in DOMAIN lastRec :
        /\ Cardinality(RowsOf(key)) <= 1
        /\ \A r \in RowsOf(key) : assets[r] = 1 /\ r = lastRec[key]

\* the files and directories under the tree of a session
TreeOf(sessionId) ==
    {p \in DOMAIN files \cup dirs : IsPrefix(SessionRoot(sessionId), p)}

\* C11: once deleteSession(S) has completed, S has no session row, no assets
\* row carries session id S, nothing is left of the directory tree of S, and
\* every assetExists(S, ...) call made afterwards returns absent.
C11_CascadeDelete ==
    \A s \in deleted :
        /\ s \notin SessionIds
        /\ \A r \in BagToSet(assets) : r.session_id # s
        /\ TreeOf(s) = {}
        /\ (probe.pc = "done" /\ probe.late /\ probe.args[1] = s) => probe.result = Null

\* the arguments that are one non-empty name, without a separator in it
PlainNames == {"character", "models", "idle", "walking", "front.png"}
PlainArgs(t) ==
    /\ t[2] \in PlainNames
    /\ t[3] \in PlainNames \cup {Null}
    /\ t[4] \in PlainNames
\* the parts of a path without a pose: scope, asset type and file name, where given
PartsWithoutPose(t) == SelectSeq(<<t[1], t[2], t[4]>>, LAMBDA x : x # Null /\ x # "")
\* equal arguments give equal results, and a null pose leaves no segment
SameInSameOut ==
    /\ resolve.a = resolve.b => (resolve.pa = resolve.pb /\ resolve.ua = resolve.ub)
    /\ resolve.a[3] = Null =>
            /\ resolve.pa = JoinSegments(<<"assets">> \o PartsWithoutPose(resolve.a))
            /\ resolve.ua = JoinSegments(<<"/assets">> \o PartsWithoutPose(resolve.a))

HardOk == Succeeded(GroundKey) /\ Succeeded(IdleBaseKey) /\ Succeeded(Idle3dKey)
FailedByLoad == pipe.pc = "failed" /\ pipe.why = "model-load"

\* C13 as stated: a run whose two Phase 1 requests and idle mesh request
\* succeeded is never Failed and reaches Done, whatever idle view, walking
\* base, walking view and walking mesh requests fail.
C13_SoftNeverAbort ==
    /\ [](HardOk => pipe.pc # "failed")
    /\ (HardOk ~> pipe.pc = "done")

\* C13 amended: such a run is Failed only by the final load of the idle model
\* being rejected, and it reaches Done or is Failed by that load.
C13_SoftNeverAbortButLoad ==
    /\ [](HardOk => (pipe.pc = "failed" => pipe.why = "model-load"))
    /\ (HardOk ~> (pipe.pc = "done" \/ FailedByLoad))

\* C13 witness: an idle view, a walking view and the walking mesh failed and
\* the run reached Done
C13_Witness ==
    /\ HardOk /\ pipe.pc = "done"
    /\ \E k \in IdleViewKeys : Failed(k)
    /\ \E k \in WalkingViewKeys : Failed(k)
    /\ Failed(Walking3dKey)

\* C14: a run that has started ends Done or Failed; Done has the loading
\* modal hidden; after Failed the fallback ground is created and the loading
\* modal hidden; so the loading modal of a run is hidden in the end.
C14_TerminatesWithFallback ==
    /\ (pipe.pc = "p1" ~> pipe.pc \in {"done", "failed"})
    /\ [](pipe.pc = "done" => (pipe.loadingHidden /\ ~pipe.fallbackGround))
    /\ (pipe.pc = "failed" ~> (pipe.fallbackGround /\ pipe.loadingHidden))
    /\ (pipe.pc = "p1" ~> pipe.loadingHidden)

\* C14 witness: a run Failed in Phase 3, the fallback ground is in the scene
\* and the loading modal hidden
C14_Witness ==
    /\ pipe.pc = "failed" /\ pipe.why = "idle-3d"
    /\ pipe.fallbackGround /\ pipe.loadingHidden /\ pipe.timer = "none"

\* the requests of C15: a view without a prompt template, a pose without one,
\* a pose asked for when the idle front image did not exist
NoTemplate(r) ==
    \/ reqs[r].q.ep = "view" /\ ~(reqs[r].q.pose \in {"idle", "walking", "shooting"}
                                   /\ reqs[r].q.view \in FiveViews)
    \/ reqs[r].q.ep = "pose" /\ reqs[r].q.pose \notin {"walking", "shooting"}
    \/ reqs[r].q.ep = "pose" /\ ~reqs[r].idleThere
\* the request has called no provider and has got to no write: neither to the
\* download that writes the file nor to the recordAsset after it
NothingDone(r) ==
    /\ ~reqs[r].called /\ reqs[r].calls = 0 /\ reqs[r].url = NoUrl
    /\ reqs[r].pc \in {"lookup", "done"}
ErrorAnswer(r) ==
    reqs[r].pc = "done" /\ ~reqs[r].resp.success /\ reqs[r].resp.error \notin {"", "none"}

ExpectedRow(q, u) ==
    [session_id |-> q.sid,
     asset_type |-> CASE q.ep = "texture" -> "ground" [] q.ep = "model" -> "models"
                      [] OTHER -> "character",
     pose |-> IF q.ep = "texture" THEN Null ELSE q.pose,
     view_name |-> CASE q.ep = "view" -> q.view
                     [] q.ep \in {"character", "pose"} -> "front"
                     [] OTHER -> Null,
     file_path |-> ReqPath(q), remote_url |-> u, request_id |-> u.n]
\* the step in which request r stores its download, and the step in which it
\* answers that it has generated its artifact
Stores(r) == reqs[r].pc = "download" /\ reqs'[r].pc \in {"record", "done"} /\ files' # files
AnswersGenerated(r) ==
    /\ reqs[r].pc \in {"download", "record"} /\ reqs'[r].pc = "done"
    /\ reqs'[r].resp.success /\ ~reqs'[r].resp.cached
\* the steps of a request without a session id leave the assets table alone
LegacyLeavesStore(r) ==
    (reqs'[r] # reqs[r] /\ ~Truthy(reqs'[r].q.sid)) => assets' = assets
RecordWritten(r) ==
    Truthy(reqs[r].q.sid) =>
        /\ ExpectedRow(reqs[r].q, reqs[r].url) \in BagToSet(assets')
        /\ reqs'[r].resp.url = RelUrl(ReqUrl(reqs[r].q))

\* C16 as stated: when a request that found no file answers that it has
\* generated the artifact, the file exists at the resolved path, and for a
\* session the assets table holds the row of that session, path, remote URL
\* and request id; the steps of a request without a session id leave the
\* table unchanged.
C16_WriteThrough ==
    [][\A r \in Slots :
        /\ AnswersGenerated(r) =>
                /\ reqs[r].called
                /\ ReqPath(reqs[r].q) \in DOMAIN files'
                /\ RecordWritten(r)
        /\ LegacyLeavesStore(r)]_vars

\* C16 amended: the file is at the resolved path when the download is stored,
\* and still there at the answer unless a deleteSession has removed the
\* session's tree since; the row and the legacy case as stated.
C16_WriteThroughUnlessDeleted ==
    [][\A r \in Slots :
        /\ Stores(r) =>
                /\ ReqPath(reqs[r].q) \in DOMAIN files'
                /\ files'[ReqPath(reqs[r].q)] = reqs[r].url
        /\ AnswersGenerated(r) =>
                /\ reqs[r].called
                /\ reqs'[r].kept => ReqPath(reqs[r].q) \in DOMAIN files'
                /\ RecordWritten(r)
        /\ LegacyLeavesStore(r)]_vars

\* C16 witness: the ground texture of a session was generated and recorded,
\* and the idle front image of the legacy scope generated, the table holding
\* the one row
C16_Witness ==
    \E a, b \in Slots :
        /\ reqs[a].pc = "done" /\ reqs[a].resp.success /\ ~reqs[a].resp.cached
        /\ reqs[a].q.ep = "texture" /\ reqs[a].q.sid = "s1" /\ reqs[a].kept
        /\ ReqPath(reqs[a].q) \in DOMAIN files
        /\ BagToSet(assets) = {ExpectedRow(reqs[a].q, reqs[a].url)}
        /\ reqs[b].pc = "done" /\ reqs[b].resp.success /\ ~reqs[b].resp.cached
        /\ reqs[b].q.sid = Null /\ ReqPath(reqs[b].q) \in DOMAIN files

\* the step in which the provider call of request r fails
ProviderFails(r) == reqs[r].pc = "provider" /\ reqs'[r].pc = "done"

\* C17: when the provider call fails, the request is answered success=false
\* with an error message and the step changes no file, no directory and no
\* row; every row carries a URL the provider produced for the row's file; and
\* a request is answered from the cache only for a file the provider has
\* produced an artifact for.
C17_FailureLeavesNoTrace ==
    /\ [][\A r \in Slots :
            ProviderFails(r) =>
                /\ ~reqs'[r].resp.success /\ ~reqs'[r].resp.cached
                /\ reqs'[r].resp.error \notin {"", "none"}
                /\ files' = files /\ dirs' = dirs /\ assets' = assets]_vars
    /\ [](\A row \in BagToSet(assets) :
            /\ row.remote_url.kind = "remote" /\ row.remote_url.at = row.file_path
            /\ row.remote_url.n \in 1..GenOf(row.file_path))
    /\ [](\A r \in Slots :
            (reqs[r].pc = "lookup" \/ (reqs[r].pc = "done" /\ reqs[r].resp.cached)) =>
                GenOf(ReqPath(reqs[r].q)) >= 1)

\* C17 witness: a request failed at the provider, a request for the same file
\* called the provider in its turn, and there is no file and no row
C17_Witness ==
    \E a, b \in Slots :
        /\ a < b
        /\ reqs[a].pc = "done" /\ reqs[a].called /\ ~reqs[a].resp.success
        /\ reqs[b].q = reqs[a].q /\ reqs[b].pc = "provider"
        /\ files = <<>> /\ assets = EmptyBag

\* C18: no request has called the provider more than once.
C18_NoRetry ==
    \A r \in Slots :
        /\ reqs[r].calls <= 1
        /\ reqs[r].called <=> reqs[r].calls = 1

\* C18 witness: a request whose call failed and one whose call succeeded have
\* both been answered, each after one call
C18_Witness ==
    \E a, b \in Slots :
        /\ reqs[a].pc = "done" /\ ~reqs[a].resp.success /\ reqs[a].calls = 1
        /\ reqs[b].pc = "done" /\ reqs[b].resp.success /\ ~reqs[b].resp.cached
        /\ reqs[b].calls = 1

\* the row matches the arguments of an assetExists call
MatchesArgs(row, args) ==
    /\ row.session_id = args[1] /\ row.asset_type = args[2]
    /\ args[3] # Null => row.pose = args[3]
    /\ args[4] # Null => row.view_name = args[4]

\* C19: when assetExists returns a path, a row of the table matches the
\* arguments and has that path, and the file is there at that moment; when
\* the query found no row, or a row whose file is gone, it returns absent.
C19_ValidatedAgainstDisk ==
    [][(probe.pc = "queried" /\ probe'.pc = "done") =>
        /\ probe'.result # Null =>
                /\ \E row \in BagToSet(assets) :
                        MatchesArgs(row, probe.args) /\ row.file_path = probe'.result
                /\ probe'.result \in DOMAIN files
        /\ (probe.row = {} \/ \A row \in probe.row : row.file_path \notin DOMAIN files) =>
                probe'.result = Null]_vars

\* C19 witness: assetExists found the row of a deleted session's ground
\* texture, whose file is gone, and returned absent
C19_Witness ==
    /\ probe.pc = "done" /\ probe.result = Null
    /\ \E row \in probe.row :
            /\ row \in BagToSet(assets) /\ row.asset_type = "ground"
            /\ row.file_path \notin DOMAIN files

\* C20: the UPDATE of a getSession sets the session's last-accessed to the
\* time the call read; last-accessed never decreases; once a getSession has
\* returned a session, that session's last-accessed is at least the time of
\* the call; every row keeps the id it was inserted with.
C20_LastAccessedBump ==
    /\ [][\A g \in DOMAIN gets :
            (gets[g].pc = "update" /\ gets'[g].pc = "done" /\ gets[g].id \in SessionIds) =>
                sessions'[gets[g].id].last_accessed = gets[g].now]_vars
    /\ [][\A k \in DOMAIN sessions \cap DOMAIN sessions' :
            /\ sessions'[k].last_accessed >= sessions[k].last_accessed
            /\ sessions'[k].id = sessions[k].id]_vars
    /\ [](\A g \in DOMAIN gets :
            (gets[g].pc = "done" /\ gets[g].session # {} /\ gets[g].id \in SessionIds) =>
                sessions[gets[g].id].last_accessed >= gets[g].now)
    /\ [](\A k \in DOMAIN sessions : sessions[k].id = k)

\* what is kept of a session: its row, its assets rows, its files and directories
KeptOf(sessionId, table, rows, fs, ds) ==
    <<{table[k] : k \in {j \in DOMAIN table : table[j].id = sessionId}},
      {r \in BagToSet(rows) : r.session_id = sessionId},
      {p \in DOMAIN fs \cup ds : IsPrefix(SessionRoot(sessionId), p)},
      [p \in {f \in DOMAIN fs : IsPrefix(SessionRoot(sessionId), f)} |-> fs[p]]>>

\* C21: the sweep takes exactly the sessions whose last-accessed is below the
\* cutoff; the turn of the loop for one of them leaves no row, no assets row
\* and nothing of the directory tree of that session, and every other session
\* with its assets rows and files as they were; the sweep returns the number
\* of sessions it has deleted.
C21_RetentionSweep ==
    /\ [][(sweep.pc = "idle" /\ sweep'.pc = "deleting") =>
            sweep'.old = {sessions[k].id : k \in
                            {j \in DOMAIN sessions : sessions[j].last_accessed < sweep'.cutoff}}]_vars
    /\ [][\A s \in {"s1", "s2"} :
            (sweep.pc = "deleting" /\ s \in sweep.left /\ s \notin sweep'.left) =>
                /\ KeptOf(s, sessions', assets', files', dirs') = <<{}, {}, {}, <<>>>>
                /\ \A o \in {"s1", "s2"} \ {s} :
                        KeptOf(o, sessions', assets', files', dirs')
                            = KeptOf(o, sessions, assets, files, dirs)]_vars
    /\ [](sweep.pc = "done" =>
            /\ sweep.result = Cardinality(sweep.old)
            /\ sweep.old \subseteq deleted)

\* the two paths of a checkAssetExists call, and whether something is there
GivenScope == Truthy(check.args[1])
ScopedPath == getAssetPath(check.args[1], check.args[2], check.args[3], check.args[4])
LegacyPath == getAssetPath(Null, check.args[2], check.args[3], check.args[4])
ScopedThere == GivenScope /\ existsSync(ScopedPath)
LegacyThere == existsSync(LegacyPath)

\* C22: checkAssetExists reports the session-scoped path, not flagged legacy,
\* whenever the session-scoped file exists; otherwise the legacy path, flagged
\* isLegacy, when the legacy file exists; otherwise exists=false with the
\* session-scoped path when a session id was given and the legacy path when
\* not.
C22_LegacyFallback ==
    check.done =>
        /\ ScopedThere =>
                (check.exists /\ check.path = ScopedPath /\ ~check.isLegacy)
        /\ (~ScopedThere /\ LegacyThere) =>
                (check.exists /\ check.path = LegacyPath /\ check.isLegacy)
        /\ (~ScopedThere /\ ~LegacyThere) =>
                /\ ~check.exists
                /\ check.path = (IF GivenScope THEN ScopedPath ELSE LegacyPath)

\* C22 witness: both the file of the session and the legacy file are there,
\* and the call for the session reported the file of the session
C22_Witness ==
    /\ check.done /\ check.args = <<"s1", "character", "idle", FRONT_FILE>>
    /\ ScopedThere /\ LegacyThere /\ ScopedPath # LegacyPath
    /\ check.exists /\ check.path = ScopedPath /\ ~check.isLegacy

\* the requests of a phase, and whether each of them has returned
Issued(k) == k \in DOMAIN net
ViewKeys(type) == {Key(type, views[i]) : i \in DOMAIN views}
Phase3Keys == {Key("idle-3d", Null), Key("walking-base", Null)}
AllReturned(keys) == \A k \in keys : AnsweredKey(k)

\* C23: a Phase 3 request is issued only when all five Phase 2 requests have
\* returned, a Phase 4 view request only when both Phase 3 requests have, the
\* Phase 4 mesh request only when all five Phase 4 view requests have; and a
\* request carries the result it consumes, which was there when it was sent:
\* the views the address of their base image, the meshes the addresses of the
\* views that succeeded.
C23_PhaseBarriers ==
    /\ (\E k \in Phase3Keys : Issued(k)) =>
            (ViewKeys("idle-view") \subseteq DOMAIN net /\ AllReturned(ViewKeys("idle-view")))
    /\ (\E k \in ViewKeys("walking-view") : Issued(k)) => AllReturned(Phase3Keys)
    /\ Issued(Key("walking-3d", Null)) =>
            (ViewKeys("walking-view") \subseteq DOMAIN net
             /\ AllReturned(ViewKeys("walking-view")))
    /\ \A k \in ViewKeys("idle-view") :
            Issued(k) => /\ Succeeded(Key("idle-base", Null))
                         /\ net[k].q.imgs = <<AddressOf(net[Key("idle-base", Null)].resp)>>
    /\ \A k \in ViewKeys("walking-view") :
            Issued(k) => /\ Succeeded(Key("walking-base", Null))
                         /\ net[k].q.imgs = <<AddressOf(net[Key("walking-base", Null)].resp)>>
    /\ Issued(Key("idle-3d", Null)) =>
            net[Key("idle-3d", Null)].q.imgs =
                SliceFor(pipe.mt, Collect(AddressOf(net[Key("idle-base", Null)].resp), "idle-view"))
    /\ Issued(Key("walking-3d", Null)) =>
            net[Key("walking-3d", Null)].q.imgs =
                SliceFor(pipe.mt,
                         Collect(AddressOf(net[Key("walking-base", Null)].resp), "walking-view"))

\* C23 witness: the walking mesh request is out, after a Phase 2 request and a
\* Phase 4 view request that returned a failure
C23_Witness ==
    /\ pipe.pc = "p4m" /\ Pending(Key("walking-3d", Null))
    /\ \E k \in ViewKeys("idle-view") : AnsweredKey(k) /\ ~Succeeded(k)
    /\ \E k \in ViewKeys("walking-view") : AnsweredKey(k) /\ ~Succeeded(k)

\* the step in which request r has its download written, and the step in
\* which its recordAsset returns
Written(r) ==
    /\ reqs[r].pc = "download"
    /\ reqs'[r].pc = "record" \/ (reqs'[r].pc = "done" /\ reqs'[r].resp.success)
Recorded(r) == reqs[r].pc = "record" /\ reqs'[r].pc = "done"
SameKeyRows(rows, row) == {x \in BagToSet(rows) : RowKey(x) = RowKey(row)}

MeshKeys == {Key("idle-3d", Null), Key("walking-3d", Null)}
UpstreamOfImage(u) ==
    /\ u.kind = "remote"
    /\ u.n \in 1..GenOf(u.at)
    /\ \E k \in DOMAIN net :
            /\ net[k].q.ep \in {"character", "pose", "view"}
            /\ Succeeded(k) /\ ReqPath(net[k].q) = u.at

LookedUp(r) == reqs[r].pc = "lookup" /\ reqs'[r].pc = "done"
KeyRows(q) == Matching(assets, q.sid, "character", q.pose, ReqViewName(q))

\* C26 as stated: the remoteUrl of a session-scoped cached answer of
\* generate-character, generate-pose or generate-view is the remote URL of
\* the row recorded for the request's (session, type, pose, view).
C26_CachedCarriesRecorded ==
    [][\A r \in Slots :
        LookedUp(r) =>
            /\ reqs'[r].resp.cached
            /\ \E row \in KeyRows(reqs[r].q) : reqs'[r].resp.remoteUrl = row.remote_url]_vars

\* C26 amended: it is the remote URL of the row recorded for the key when the
\* lookup finds one whose file is there, and the localhost address of the
\* file when it finds none.
C26_CachedCarriesRecordedIfAny ==
    [][\A r \in Slots :
        LookedUp(r) =>
            LET q == reqs[r].q
                found == {row \in KeyRows(q) : existsSync(row.file_path)}
            IN  /\ reqs'[r].resp.cached
                /\ found # {} => \E row \in found : reqs'[r].resp.remoteUrl = row.remote_url
                /\ found = {} => reqs'[r].resp.remoteUrl = LocalhostUrl(ReqUrl(q))]_vars

\* C26 witness: a request generated and recorded the idle front image of a
\* session, and a later one was answered from the cache with the recorded URL
C26_Witness ==
    \E a, b \in Slots :
        /\ a < b /\ reqs[a].q = reqs[b].q /\ reqs[a].q.ep = "character"
        /\ reqs[a].pc = "done" /\ reqs[a].resp.success /\ ~reqs[a].resp.cached
        /\ reqs[b].pc = "done" /\ reqs[b].resp.cached
        /\ reqs[b].resp.remoteUrl = reqs[a].url
        /\ KeyRows(reqs[b].q) = {ExpectedRow(reqs[a].q, reqs[a].url)}

\* the (pose, view) requests of the run
RequestedViews == {k \in DOMAIN net : net[k].q.ep = "view"}

\* C27: when the pipeline is Done, what the run has kept of its results
\* enumerates every artifact produced, and holds an entry, success or
\* failure, for every (pose, view) that was requested.
C27_DonePayload ==
    pipe.pc = "done" =>
        /\ \A k \in DOMAIN net : Succeeded(k) => k \in pipe.gallery
        /\ \A k \in RequestedViews : k \in pipe.gallery

\* C28: no side-track call is started before Phase 1 has returned; when the
\* pipeline is Done every environment item, the riddle and every puzzle
\* object that was started have finished; and the pipeline is never Failed on
\* account of a side-track item: it fails only on Phase 1, the texture load,
\* the idle mesh, the Nemotron load or the final model load.
C28_SideTracksJoined ==
    /\ ext.pc \in {"off", "p1"} =>
            (ext.riddle = "none" /\ \A i \in EnvItems : ext.env[i] = "none")
    /\ ext.pc = "done" =>
            /\ \A i \in EnvItems : Ended(ext.env[i])
            /\ Ended(ext.riddle)
            /\ \A j \in PuzzleItems : ext.puzzle[j] # "running"
            /\ ext.riddle = "ok" => \A j \in PuzzleItems : Ended(ext.puzzle[j])
    /\ ext.pc = "failed" =>
            ext.why \in {"phase1", "texture-load", "idle-3d", "nemotron-load", "model-load"}

\* C28 witness: the pipeline is Done although an environment item and a
\* puzzle object failed
C28_Witness ==
    /\ ext.pc = "done"
    /\ \E i \in EnvItems : ext.env[i] = "failed"
    /\ \E j \in PuzzleItems : ext.puzzle[j] = "failed"

\* an environment item is still running while the run awaits Phase 3
C28_Concurrent ==
    ext.pc = "p3" /\ ext.riddle = "running" /\ \E i \in EnvItems : ext.env[i] = "running"

\* a file holding every byte of a provider artifact
Whole(content) == content.kind = "remote"

\* slot r takes the cache-hit branch in this step
TakesCacheHit(r) ==
    /\ reqs[r].pc = "free"
    /\ \/ reqs'[r].pc = "lookup"
       \/ reqs'[r].pc = "done" /\ reqs'[r].resp.success /\ reqs'[r].resp.cached

\* C29: every file at a cache path holds a whole artifact at every moment; a
\* file appears or changes only in the step that ends a download whose every
\* chunk has arrived; and a request takes the cache-hit branch only on a
\* whole file, also while other downloads of the same file are under way.
C29_NoPartialArtifact ==
    /\ [](\A p \in DOMAIN files : Whole(files[p]))
    /\ [][\A p \in DOMAIN files' :
            (p \notin DOMAIN files \/ files'[p] # files[p]) =>
                \E r \in Slots : /\ reqs[r].pc = "download"
                                 /\ ReqPath(reqs[r].q) = p
                                 /\ got[r] = ArtifactChunks
                                 /\ reqs'[r].pc \in {"record", "done"}
                                 /\ files'[p] = reqs[r].url]_vars
    /\ [][\A r \in Slots : TakesCacheHit(r) =>
            /\ ReqPath(reqs'[r].q) \in DOMAIN files
            /\ Whole(files[ReqPath(reqs'[r].q)])]_vars

\* C29 witness: a request has been answered from the cache while another
\* download of the same file holds a part of the artifact in memory
C29_Witness ==
    \E r, k \in Slots :
        /\ reqs[r].pc = "done" /\ reqs[r].resp.success /\ reqs[r].resp.cached
        /\ reqs[k].pc = "download" /\ got[k] \in 1..(ArtifactChunks - 1)
        /\ ReqPath(reqs[k].q) = ReqPath(reqs[r].q)

PhasePcs == {"p1", "p2", "p3", "p4v", "p4m"}

\* C30: while a request of a phase has not returned, the pipeline is in that
\* phase, awaiting the batch the request belongs to, and is neither Done nor
\* Failed; a step that leaves the request without a response leaves the
\* pipeline in the phase; and the passing of time changes nothing of the
\* pipeline.  So with a request that never returns the pipeline stays in
\* its phase forever.
C30_NoTimeout ==
    /\ [](\A k \in DOMAIN net : Pending(k) =>
            /\ pipe.pc \in PhasePcs
            /\ \E i \in DOMAIN pipe.batch : pipe.batch[i] = k)
    /\ [][\A k \in DOMAIN net :
            (Pending(k) /\ k \in DOMAIN net' /\ net'[k].resp = NoResp) =>
                (pipe'.pc = pipe.pc /\ pipe'.batch = pipe.batch)]_vars
    /\ [][clock' # clock => pipe' = pipe]_vars

\* C30 witness: Phase 2 is still awaited when the clock has run out, with a
\* request answered and another not
C30_Witness ==
    /\ pipe.pc = "p2" /\ clock = MaxClock
    /\ \E i \in DOMAIN pipe.batch : AnsweredKey(pipe.batch[i])
    /\ \E i \in DOMAIN pipe.batch : Pending(pipe.batch[i])

\* the step in which the opened session's pipeline is started
GenerationStarted == game.pc \in {"assets", "head", "ground", "model"} /\ game'.pc = "generated"
GroundRecord(sid) == \E a \in getSessionAssets(assets, sid) : a.asset_type = "ground"
IdleModelThere(sid) == IdleModelPath(sid) \in DOMAIN files

C31_WitnessMissing ==
    game.pc = "generated" /\ game.why = "missing" /\ game.hasGround = TRUE

\* no handler is between its arrival and its answer
AllFinished == \A r \in Slots : reqs[r].pc \in {"free", "done", "lost"}
FilesUnder(root) == {p \in DOMAIN files : IsPrefix(root, p)}

\* C32: when deleteSession(S) has completed and every generation request
\* for S, all of which arrived before it completed, has finished, there is no
\* file under S's directory and no Asset record of S.
C32_NoResurrection ==
    \A s \in deleted :
        AllFinished => /\ FilesUnder(SessionRoot(s)) = {}
                       /\ getSessionAssets(assets, s) = {}

\* the part of C32 about files
C32_NoFileResurrection ==
    \A s \in deleted : AllFinished => FilesUnder(SessionRoot(s)) = {}

\* C33: while no session has been deleted, the file path of every Asset
\* record is the path of an existing file; and a step that writes a record
\* finds the file of its key written, with the artifact the record names.
C33_RecordImpliesArtifact ==
    /\ [](deleted = {} => \A row \in BagToSet(assets) : row.file_path \in DOMAIN files)
    /\ [][\A r \in Slots : (deleted = {} /\ Recorded(r)) =>
            /\ ReqPath(reqs[r].q) \in DOMAIN files
            /\ \E row \in BagToSet(assets') :
                    /\ row.file_path = ReqPath(reqs[r].q)
                    /\ row.session_id = reqs[r].q.sid
                    /\ row.remote_url = reqs[r].url]_vars

\* C33 witness: a record is in the table, nothing has been deleted, and
\* another session-scoped request has its artifact generated but neither
\* written nor recorded
C33_Witness ==
    /\ deleted = {}
    /\ BagToSet(assets) # {}
    /\ \E r \in Slots : /\ reqs[r].pc = "download" /\ Truthy(reqs[r].q.sid)
                         /\ ReqPath(reqs[r].q) \notin DOMAIN files

\* C34: when no session has been deleted and every request has finished,
\* the file of every Asset record holds the artifact whose remote URL and
\* request id the record carries.
C34_FileMatchesRecord ==
    (deleted = {} /\ AllFinished) =>
        \A row \in BagToSet(assets) :
            row.file_path \in DOMAIN files =>
                /\ files[row.file_path] = row.remote_url
                /\ files[row.file_path].n = row.request_id

\* the files and the Asset records a step creates, overwrites or deletes
ChangedFiles ==
    {p \in DOMAIN files \cup DOMAIN files' :
        ~(p \in DOMAIN files /\ p \in DOMAIN files' /\ files[p] = files'[p])}
ChangedRows ==
    {row \in BagToSet(assets) \cup BagToSet(assets') :
        CopiesIn(row, assets) # CopiesIn(row, assets')}
\* the session ids the requests taking this step carry
Actors ==
    {reqs[r].q.sid : r \in {k \in Slots : reqs'[k].pc # reqs[k].pc /\ Truthy(reqs[k].q.sid)}}
    \cup (deleted' \ deleted)
InLegacyTree(p) == \E d \in {GROUND_DIR, CHARACTER_DIR, MODELS_DIR} : IsPrefix(d, p)

\* C35: a step of a generation or delete request that carries session id A
\* changes no file outside A's directory, no file of the legacy tree, and no
\* Asset record of another session.
C35_SessionIsolation ==
    [][\A a \in Actors :
        /\ \A p \in ChangedFiles : IsPrefix(SessionRoot(a), p) /\ ~InLegacyTree(p)
        /\ \A row \in ChangedRows : row.session_id = a]_vars

\* C35 for the ids createSession issues, which are no directory name of the
\* legacy tree
C35_SessionIsolationOfIssuedIds ==
    [][\A a \in Actors \ {"character"} :
        /\ \A p \in ChangedFiles : IsPrefix(SessionRoot(a), p) /\ ~InLegacyTree(p)
        /\ \A row \in ChangedRows : row.session_id = a]_vars

\* the legacy path of the asset a request names
LegacyPathOf(q) == ReqPath([q EXCEPT !.sid = Null])
AnsweredCached(r) == reqs[r].pc = "done" /\ reqs[r].resp.success /\ reqs[r].resp.cached

\* C36: a request that carries a session id takes the cache-hit branch only
\* when the file exists under the session's own directory; with the file at
\* the legacy path only, it calls the provider.  (No file is deleted here, so
\* a file found is still there when the request is answered.)
C36_NoLegacyCacheHit ==
    /\ [][\A r \in Slots :
            (TakesCacheHit(r) /\ Truthy(reqs'[r].q.sid)) =>
                /\ ReqPath(reqs'[r].q) \in DOMAIN files
                /\ IsPrefix(SessionRoot(reqs'[r].q.sid), ReqPath(reqs'[r].q))]_vars
    /\ [](\A r \in Slots :
            (AnsweredCached(r) /\ Truthy(reqs[r].q.sid)) =>
                ReqPath(reqs[r].q) \in DOMAIN files)

\* C36 witness: with the legacy file there and the session's missing, a
\* session request went to the provider
C36_Witness ==
    \E r \in Slots :
        /\ Truthy(reqs[r].q.sid)
        /\ reqs[r].pc = "provider"
        /\ LegacyPathOf(reqs[r].q) \in DOMAIN files
        /\ ReqPath(reqs[r].q) \notin DOMAIN files

\* a generate-pose request of a session that had no idle front image when
\* the request arrived
PoseWithoutIdle(r) ==
    /\ reqs[r].pc # "free"
    /\ reqs[r].q.ep = "pose" /\ Truthy(reqs[r].q.sid)
    /\ ~reqs[r].idleThere

\* C37 as stated: such a request calls no provider, writes no file and no
\* record, and is answered with an error in the step it arrives in.
C37_PoseNeedsOwnIdle ==
    \A r \in Slots : PoseWithoutIdle(r) => (NothingDone(r) /\ ErrorAnswer(r))

\* what holds of C37 also after a deleteSession: such a request calls no
\* provider and writes no file and no record; it is answered with an error
\* unless the file of the target pose exists, in which case it is answered
\* from the cache.
C37_PoseNeedsOwnIdleOnMiss ==
    \A r \in Slots :
        PoseWithoutIdle(r) =>
            /\ NothingDone(r)
            /\ \/ ErrorAnswer(r)
               \/ reqs[r].pc = "lookup"
               \/ AnsweredCached(r)

\* C37 witness: with the legacy idle front image there and the session's
\* missing, the pose request ended with the error of the failed read
C37_Witness ==
    \E r \in Slots :
        /\ PoseWithoutIdle(r)
        /\ LegacyIdlePath \in DOMAIN files
        /\ reqs[r].pc = "done" /\ reqs[r].resp.error = "read-error"

\* request a stored the mesh of (scope, pose) that request b asks for
StoredMeshFor(a, b) ==
    /\ reqs[a].pc = "done" /\ reqs[a].resp.success /\ reqs[a].called
    /\ reqs[a].q.ep = "model"
    /\ reqs[a].q.sid = reqs'[b].q.sid /\ reqs[a].q.pose = reqs'[b].q.pose
Arrives(b) == reqs[b].pc = "free" /\ reqs'[b].pc # "free"

\* C38: a mesh request that arrives when a mesh of its (scope, pose) is
\* stored is answered from the cache in that step, with the stored mesh's
\* address and no provider call, whichever provider it names and whichever
\* provider produced the stored mesh.
C38_MeshCacheIgnoresProvider ==
    [][\A a, b \in Slots :
        (Arrives(b) /\ reqs'[b].q.ep = "model" /\ StoredMeshFor(a, b)) =>
            /\ reqs'[b].pc = "done"
            /\ reqs'[b].resp.success /\ reqs'[b].resp.cached
            /\ ~reqs'[b].called
            /\ reqs'[b].resp.url = reqs[a].resp.url]_vars

\* C38 witness: a request naming rodin was answered from the cache with the
\* mesh a trellis request of the same session and pose had produced
C38_Witness ==
    \E a, b \in Slots :
        /\ reqs[a].pc = "done" /\ reqs[a].resp.success /\ reqs[a].called
        /\ reqs[a].q.ep = "model" /\ reqs[a].q.mt = "trellis"
        /\ AnsweredCached(b)
        /\ reqs[b].q.ep = "model" /\ reqs[b].q.mt = "rodin"
        /\ reqs[b].q.sid = reqs[a].q.sid /\ reqs[b].q.pose = reqs[a].q.pose
        /\ Truthy(reqs[b].q.sid)

IsPoster(r) == reqs[r].pc # "free" /\ reqs[r].q.ep = "meme"

\* C39: two poster requests of a run with different file names resolve to
\* different paths; so no poster request is answered from the cache in a
\* first run, and no download overwrites the file of another poster.
C39_DistinctPosters ==
    \A a, b \in Slots :
        (IsPoster(a) /\ IsPoster(b) /\ reqs[a].q.view # reqs[b].q.view) =>
            /\ ReqPath(reqs[a].q) # ReqPath(reqs[b].q)
            /\ ~AnsweredCached(a)

\* the part of C39 about answers: no poster is answered with the artifact
\* stored for another
C39_NoPosterFromCache == \A a \in Slots : IsPoster(a) => ~AnsweredCached(a)

\* C40: the fallback ground is in the scene only in a run in which the
\* generated ground was not applied, so the scene never holds both grounds.
C40_FallbackOnlyWithoutGround == pipe.fallbackGround => ~pipe.ground

\* what holds of C40: a run that fails before the texture is applied has the
\* fallback ground alone
C40_FallbackAloneBeforeTexture ==
    (pipe.fallbackGround /\ pipe.why \in {"ground", "idle-base", "texture-load"}) => ~pipe.ground

====
